---- MODULE Spec2Model ----
(***************************************************************************)
(* Model of src/app.py: the YouTube key-rotation client (yt_get), the      *)
(* search pipeline (search_youtube) and its caller (perform_search), the   *)
(* recommendation block (fetch_trending_with_engagement, the seed-keyword  *)
(* fallback) and the keyword board (keyword_ranked_recos).                 *)
(*                                                                         *)
(* A Python str is a sequence of one-character strings; a Hangul syllable  *)
(* (one Python character) is written as one romanised element.             *)
(***************************************************************************)
EXTENDS Integers, Sequences, FiniteSets, TLC

VARIABLES
    YOUTUBE_API_KEYS,   \* the key pool (module constant of app.py, fixed after load)
    yt_key_idx,         \* st.session_state["yt_key_idx"]
    yt_sort,            \* st.session_state.yt_sort
    last_call,          \* log of the yt_get call made outside a search, if it was the last operation
    pc,                 \* position of the session: "idle", "paging", "details",
                        \* "trending", "fallback", "seeds", "board"
    req,                \* arguments of the running / last search_youtube call
    collected_ids,      \* search_youtube: collected_ids
    page_token,         \* search_youtube: page_token
    chunk_i,            \* search_youtube: i of the detail loop
    out,                \* search_youtube: out, as built by the detail loop
    detail_items,       \* the items videos.list returned to this search, in order
    result,             \* what the search_youtube call of this search returned
    report,             \* what perform_search told the user
    err,                \* the exception perform_search caught
    failed_call,        \* log of the yt_get call that raised it (NoCall: none did)
    search_calls,       \* yt_get(YOUTUBE_SEARCH_URL) calls of this search
    video_calls,        \* yt_get(YOUTUBE_VIDEOS_URL) calls of this search
    reco_req,           \* order_mode, age_tag and salt of the running / last recommendation or board load
    collected,          \* fetch_trending_with_engagement: collected, in the paging loop
    chart_calls,        \* yt_get calls of this fetch_trending_with_engagement call
    tr_ret,             \* what fetch_trending_with_engagement returned (None: nothing yet)
    tr_again,           \* what it returns when invoked again with the same arguments and answers
    tr_sizes,           \* len(collected) after the age block, and len(pool)
    tr_err,             \* the exception that left fetch_trending_with_engagement
    seeds,              \* qs of fallback_age_recommendations / keywords of keyword_ranked_recos
    fb_log,             \* what the search for each seed of the fallback came to
    fb_ret,             \* what fallback_age_recommendations returned (None: not invoked)
    reco_candidates,    \* reco_candidates of the recommendation block
    kw_log,             \* what the search for each keyword of the board came to
    board,              \* what keyword_ranked_recos returned (None: not invoked)
    trace_in,           \* arguments of rank_external_results
    ranked,             \* what rank_external_results returned (None: not invoked)
    session,            \* st.session_state: the trigger flags and what the widgets set
    run,                \* the last interaction: its event and what the script ran for it
    secrets             \* CSE_API_KEY and CSE_CX (module constants of app.py)

vars == <<YOUTUBE_API_KEYS, yt_key_idx, yt_sort, last_call, pc, req,
          collected_ids, page_token, chunk_i, out, detail_items, result,
          report, err, failed_call, search_calls, video_calls,
          reco_req, collected, chart_calls, tr_ret, tr_again, tr_sizes, tr_err,
          seeds, fb_log, fb_ret, reco_candidates, kw_log, board,
          trace_in, ranked, session, run, secrets>>

\* Python's None for an optional value, and a present value x
None == <<>>

Some(x) == <<x>>

\* no exception
NoError == "NoError"

(***************************************************************************)
(* Bounds of the model.                                                    *)
(***************************************************************************)
MaxKeys == 3          \* largest key pool of the key-rotation specification
MaxPool == 1          \* largest key pool of the search specification
MaxSearchCalls == 3   \* search pages the API answers in one search
MaxItems == 2         \* detail items the API returns over one search
MaxChartCalls == 5    \* chart pages the API answers in one trending load
ShortPage == 11       \* videos on a chart page that is not full
MaxSeedVideos == 30   \* videos the API returns to one seed search
MaxResults == 3       \* web results handed to rank_external_results

(***************************************************************************)
(* Program constants.                                                      *)
(***************************************************************************)
MAX_YT_PER_QUERY == 500
per_page == 50
SHORTS_MAX_SECONDS == 60
POOL_MIN == 40
POOL_PERCENT == 60
RETURN_MIN == 60
RETURN_MAX == 120
TOPK == 8
FALLBACK_CAP == 200
PER_KEYWORD == 6
KW_FETCH_TOTAL == 120
TREND_FETCH_TOTAL == 200
MIN_RECO == 12
FB_FETCH_TOTAL == 30
DOMAIN_LIMIT == 2
RANK_CAP == 12
SITE_POOL == 11

KeyPool(n) == SubSeq(<<"keyA", "keyB", "keyC", "keyD", "keyE">>, 1, n)

(***************************************************************************)
(* Generic sequence helpers.                                               *)
(***************************************************************************)
Range(s) == {s[i] : i \in 1..Len(s)}

Min(a, b) == IF a <= b THEN a ELSE b

Max(a, b) == IF a >= b THEN a ELSE b

\* ceil(a / b) for b > 0: the number of iterations of range(0, a, b)
CeilDiv(a, b) == (a + b - 1) \div b

RECURSIVE SeqsUpTo(_, _)
SeqsUpTo(S, n) ==
    IF n = 0 THEN {<<>>}
    ELSE LET shorter == SeqsUpTo(S, n - 1)
         IN  shorter \cup {Append(s, x) : s \in {t \in shorter : Len(t) = n - 1}, x \in S}

(***************************************************************************)
(* What one SESSION.get of yt_get can meet.                                *)
(*   ok        200 with a JSON body                                        *)
(*   badjson   200 whose body is not JSON (r.json() raises)                *)
(*   quota     403 whose error reason is quotaExceeded                     *)
(*   forbidden 403 with another reason, or with an unparsable body         *)
(*   http400   another error status (raise_for_status raises HTTPError)    *)
(*   timeout   SESSION.get raises (timeout / connection error)             *)
(***************************************************************************)
Outcomes == {"ok", "badjson", "quota", "forbidden", "http400", "timeout"}

FailOutcomes == Outcomes \ {"ok"}

\* the exception an outcome leaves in last_err (NoError: last_err is not assigned)
ErrorOf(o) ==
    CASE o = "badjson"   -> "JSONDecodeError"
      [] o = "forbidden" -> "HTTPError403"
      [] o = "http400"   -> "HTTPError400"
      [] o = "timeout"   -> "ConnectTimeout"
      [] OTHER           -> NoError

\* str(e), word by word
str(e) ==
    CASE e = "HTTPError403"    -> <<"403", "Client", "Error", ":", "Forbidden", "for", "url", ":", "URL">>
      [] e = "HTTPError400"    -> <<"400", "Client", "Error", ":", "Bad", "Request", "for", "url", ":", "URL">>
      [] e = "ConnectTimeout"  -> <<"HTTPSConnectionPool", ":", "Max", "retries", "exceeded", "with", "url", ":", "URL">>
      [] e = "JSONDecodeError" -> <<"Expecting", "value", ":", "line", "1", "column", "1">>
      [] e = "RuntimeErrorNoKey"   -> <<"YouTube", "API", "Key", "missing">>
      [] e = "RuntimeErrorUnknown" -> <<"YouTube", "API", "request", "failed", "(", "cause", "unknown", ")">>
      [] OTHER -> <<>>

\* Python's `sub in s`
Contains(sub, s) ==
    \E i \in 0..(Len(s) - Len(sub)) : \A j \in 1..Len(sub) : s[i + j] = sub[j]

(***************************************************************************)
(* yt_get                                                                  *)
(***************************************************************************)
\* `if not YOUTUBE_API_KEYS`
NoKeysMutant(keys) == FALSE
NoKeys(keys) == Len(keys) = 0

\* idx = (start_idx + offset) % len(YOUTUBE_API_KEYS)
KeyIndexMutant(start_idx, offset, n) == offset % n
KeyIndex(start_idx, offset, n) == (start_idx + offset) % n

\* range(len(YOUTUBE_API_KEYS))
Attempts(n) == n

\* which outcomes end the attempt with `continue`
RotatesMutant(o) == o \in {"quota", "forbidden"}
Rotates(o) == o \in FailOutcomes

\* st.session_state["yt_key_idx"] = idx; return r.json()
SucceededMutant(b, idx) == [b EXCEPT !.ret = "json"]
Succeeded(b, idx) == [b EXCEPT !.ret = "json", !.key_idx = idx]

\* The for loop from `offset` on.  resp[idx] is what the API answers to key idx.
\* a carries last_err, the session's key index and the log of the attempts.
RECURSIVE yt_get_loop(_, _, _, _, _)
yt_get_loop(keys, start_idx, resp, offset, a) ==
    IF offset >= Attempts(Len(keys))
    THEN [a EXCEPT !.ret = "raise",
                   !.err = IF a.last_err # NoError THEN a.last_err ELSE "RuntimeErrorUnknown"]
    ELSE LET idx == KeyIndex(start_idx, offset, Len(keys))
             o   == resp[idx]
             b   == [a EXCEPT !.tried = Append(@, idx), !.log = Append(@, o)]
         IN  IF o = "ok"
             THEN Succeeded(b, idx)
             ELSE LET c == [b EXCEPT
                              !.last_err = IF ErrorOf(o) # NoError THEN ErrorOf(o) ELSE @,
                              !.key_idx  = IF o = "badjson" THEN idx ELSE @,
                              !.warnings = IF o = "quota" THEN @ + 1 ELSE @]
                  IN  IF Rotates(o)
                      THEN yt_get_loop(keys, start_idx, resp, offset + 1, c)
                      ELSE [c EXCEPT !.ret = "raise", !.err = c.last_err]

yt_get(keys, key_idx, resp) ==
    LET a0 == [start |-> key_idx, tried |-> <<>>, log |-> <<>>, ret |-> "none",
               err |-> NoError, last_err |-> NoError, key_idx |-> key_idx, warnings |-> 0]
    IN  IF NoKeys(keys)
        THEN [a0 EXCEPT !.ret = "raise", !.err = "RuntimeErrorNoKey"]
        ELSE yt_get_loop(keys, key_idx, resp, 0, a0)

NoCall == [start |-> 0, tried |-> <<>>, log |-> <<>>, ret |-> "none",
           err |-> NoError, last_err |-> NoError, key_idx |-> 0, warnings |-> 0]

Responses(keys) == [0..(Len(keys) - 1) -> Outcomes]

(***************************************************************************)
(* Text.                                                                   *)
(***************************************************************************)
\* the lower-case letter of every upper-case letter
LowerMap ==
    LET UpperCase == <<"A","B","C","D","E","F","G","H","I","J","K","L","M",
                       "N","O","P","Q","R","S","T","U","V","W","X","Y","Z">>
        LowerCase == <<"a","b","c","d","e","f","g","h","i","j","k","l","m",
                       "n","o","p","q","r","s","t","u","v","w","x","y","z">>
    IN  [c \in Range(UpperCase) |-> LowerCase[CHOOSE i \in 1..26 : UpperCase[i] = c]]

\* str.lower()
lower(s) ==
    \* str.lower() of one character: only cased letters change
    LET LowerChar(c) == IF c \in DOMAIN LowerMap THEN LowerMap[c] ELSE c
    IN  [i \in 1..Len(s) |-> LowerChar(s[i])]

(***************************************************************************)
(* Age keyword map (GE_KEYWORDS / AGE_KEYWORDS / GENERIC_GAME_NEG).        *)
(***************************************************************************)
GE_KEYWORDS(n) ==
    CASE n = 10 ->
          << <<"m", "i", "n", "e", "c", "r", "a", "f", "t">>,
             <<"r", "o", "b", "l", "o", "x">>,
             <<"_po", "_kes", "_mon">>,
             <<"_ae", "_ni">>,
             <<"_ge", "_im">>,
             <<"_ma", "_in", "_keu", "_rae", "_peu", "_teu">>,
             <<"_tin">>,
             <<"_hag", "_saeng">>,
             <<"_gong", "_bu", "_beob">>,
             <<"_go", "_deung", "_hag", "_gyo">>,
             <<"_jung", "_hag", "_gyo">>,
             <<"_cho", "_deung", "_hag", "_gyo">>,
             <<"_ro", "_beul", "_rog", "_seu">> >>
      [] n = 20 ->
          << <<"_dae", "_hag", "_saeng">>,
             <<"_beu", "_i", "_ro", "_geu">>,
             <<"_yeo", "_haeng">>,
             <<"_chwi", "_eob">>,
             <<"_ja", "_chwi">>,
             <<"_ka", "_pe">>,
             <<"_pae", "_syeon">>,
             <<"_a", "_i", "_dol">>,
             <<"k", "p", "o", "p">>,
             <<"_yeon", "_ye">> >>
      [] n = 30 ->
          << <<"_jig", "_jang", "_in">>,
             <<"_yug", "_a">>,
             <<"_jae", "_te", "_keu">>,
             <<"_bu", "_dong", "_san">>,
             <<"_in", "_te", "_ri", "_eo">>,
             <<"_hom", "_ka", "_pe">>,
             <<"_jeo", "_chug">>,
             <<"_yo", "_ri">>,
             <<"_hel", "_seu">> >>
      [] n = 40 ->
          << <<"_geon", "_gang">>,
             <<"_toe", "_jig">>,
             <<"_ga", "_jog">>,
             <<"_gol", "_peu">>,
             <<"_deung", "_san">>,
             <<"_ju", "_taeg">>,
             <<"_ga", "_jeon">>,
             <<"_bo", "_heom">>,
             <<"_keul", "_rae", "_sig">> >>
      [] n = 50 ->
          << <<"_geon", "_gang", "_geom", "_jin">>,
             <<"_gwan", "_jeol">>,
             <<"_eun", "_toe">>,
             <<"_chwi", "_mi">>,
             <<"_ga", "_deu", "_ning">>,
             <<"_kaem", "_ping">>,
             <<"_yo", "_ri">>,
             <<"_yeo", "_haeng">> >>
      [] n = 60 ->
          << <<"_si", "_ni", "_eo">>,
             <<"_geon", "_gang">>,
             <<"_bog", "_ji">>,
             <<"_jeong", "_won">>,
             <<"_teos", "_bat">>,
             <<"_nakk", "_si">>,
             <<"_gug", "_ag">>,
             <<"_gyo", "_yang">>,
             <<"_yeog", "_sa">>,
             <<"_teu", "_ro", "_teu">>,
             <<"_yeon", "_geum">>,
             <<"_no", "_hu">> >>

GENERIC_GAME_NEG ==
    << <<"g", "a", "m", "e">>,
       <<"_ge", "_im">>,
       <<"_gem">>,
       <<"_ma", "_in", "_keu", "_rae", "_peu", "_teu">>,
       <<"m", "i", "n", "e", "c", "r", "a", "f", "t">>,
       <<"r", "o", "b", "l", "o", "x">>,
       <<"_ro", "_beul", "_rog", "_seu">>,
       <<"_po", "_kes", "_mon">>,
       <<"f", "o", "r", "t", "n", "i", "t", "e">>,
       <<"g", "e", "n", "s", "h", "i", "n">>,
       <<"_won", "_sin">>,
       <<"l", "o", "l">>,
       <<"_ri", "_geu", " ", "_o", "_beu", " ", "_re", "_jeon", "_deu">>,
       <<"v", "a", "l", "o", "r", "a", "n", "t">>,
       <<"_bal", "_ro", "_ran", "_teu">>,
       <<"_bae", "_geu">>,
       <<"p", "u", "b", "g">>,
       <<"s", "t", "e", "a", "m">>,
       <<"_seu", "_tim">>,
       <<"x", "b", "o", "x">>,
       <<"p", "s", "5">>,
       <<"_peul", "_seu">>,
       <<"_nin", "_ten", "_do">>,
       <<"n", "i", "n", "t", "e", "n", "d", "o">>,
       <<"s", "w", "i", "t", "c", "h">>,
       <<"_seu", "_wi", "_chi">> >>

\* the tags: 10dae = "10대", ..., jeonche = "전체" (no demographic filter)
AgeTags == {"10dae", "20dae", "30dae", "40dae", "50dae", "60dae"}

NoAgeTag == "jeonche"

AGE_KEYWORDS(t) ==
    CASE t = "10dae" -> GE_KEYWORDS(10)
      [] t = "20dae" -> GE_KEYWORDS(20)
      [] t = "30dae" -> GE_KEYWORDS(30)
      [] t = "40dae" -> GE_KEYWORDS(40)
      [] t = "50dae" -> GE_KEYWORDS(50)
      [] t = "60dae" -> GE_KEYWORDS(60)

\* build_age_neg_keywords(): per tag the other tags' keywords, lower-cased, as a set
AGE_NEG_KEYWORDS ==
    [t \in AgeTags |->
        UNION {{lower(k) : k \in Range(AGE_KEYWORDS(t2))} : t2 \in AgeTags \ {t}}]

\* [kw.lower() for kw in AGE_KEYWORDS[t]] and [g.lower() for g in GENERIC_GAME_NEG]
AgeKeywordsLower ==
    [t \in AgeTags |-> [i \in 1..Len(AGE_KEYWORDS(t)) |-> lower(AGE_KEYWORDS(t)[i])]]

GenericGameNegLower == {lower(g) : g \in Range(GENERIC_GAME_NEG)}

\* `if kw.lower() in t: score += 1` over the (lower-cased) keywords kws
RECURSIVE CountHits(_, _, _)
CountHits(kws, t, i) ==
    IF i > Len(kws) THEN 0
    ELSE (IF Contains(kws[i], t) THEN 1 ELSE 0) + CountHits(kws, t, i + 1)

age_relevance_score(title, age_tag) ==
    IF title = <<>> \/ age_tag \notin AgeTags THEN 0
    ELSE CountHits(AgeKeywordsLower[age_tag], lower(title), 1)

age_negative_hit(title, age_tag) ==
    IF title = <<>> \/ age_tag \notin AgeTags THEN FALSE
    ELSE LET t == lower(title)
         IN  \/ \E neg \in AGE_NEG_KEYWORDS[age_tag] : Contains(neg, t)
             \/ /\ age_tag # "10dae"
                /\ \E g \in GenericGameNegLower : Contains(g, t)

(***************************************************************************)
(* parse_iso8601_duration: ^PT(?:(\d+)H)?(?:(\d+)M)?(?:(\d+)S)?$           *)
(***************************************************************************)
Digits == <<"0","1","2","3","4","5","6","7","8","9">>

\* the position after the run of digits that starts at p
RECURSIVE DigitsEnd(_, _)
DigitsEnd(s, p) ==
    IF p <= Len(s) /\ (\E d \in 1..10 : Digits[d] = s[p]) THEN DigitsEnd(s, p + 1) ELSE p

\* int() of the digits s[p..q-1]
RECURSIVE IntOf(_, _, _)
IntOf(s, p, q) ==
    IF q <= p THEN 0 ELSE IntOf(s, p, q - 1) * 10 + (CHOOSE d \in 1..10 : Digits[d] = s[q - 1]) - 1

\* The groups from position p on, units u..3 still allowed; -1 when no match.
RECURSIVE ParseGroups(_, _, _)
ParseGroups(s, p, u) ==
    IF p > Len(s) THEN 0
    ELSE LET Units == <<"H", "M", "S">>
             UnitSeconds == <<3600, 60, 1>>
             q == DigitsEnd(s, p)
         IN  IF q = p \/ q > Len(s) THEN -1
             ELSE LET hit == {k \in u..3 : Units[k] = s[q]}
                  IN  IF hit = {} THEN -1
                      ELSE LET k    == CHOOSE x \in hit : TRUE
                               rest == ParseGroups(s, q + 1, k + 1)
                           IN  IF rest < 0 THEN -1
                               ELSE IntOf(s, p, q) * UnitSeconds[k] + rest

\* s is cd.get("duration"): None or Some(text)
parse_iso8601_duration(d) ==
    IF d = None \/ d[1] = <<>> THEN 0
    ELSE LET s == d[1] IN
    IF Len(s) < 2 \/ s[1] # "P" \/ s[2] # "T" THEN 0
    ELSE LET r == ParseGroups(s, 3, 1) IN IF r < 0 THEN 0 ELSE r

\* is_shorts = seconds <= 60 if seconds else False
IsShortsOfMutant(seconds) == seconds <= SHORTS_MAX_SECONDS
IsShortsOf(seconds) == IF seconds # 0 THEN seconds <= SHORTS_MAX_SECONDS ELSE FALSE

(***************************************************************************)
(* Texts used by the answers and the requests.                             *)
(***************************************************************************)
T_CAT_GAME == <<"C", "a", "t", " ", "_ge", "_im">>

T_CAFE_VLOG == <<"_ka", "_pe", " ", "V", "l", "o", "g">>

T_DOG == <<"D", "O", "G">>

T_TRAVEL == <<"_yeo", "_haeng">>

D_PT45S == <<"P", "T", "4", "5", "S">>

D_PT1H2M3S == <<"P", "T", "1", "H", "2", "M", "3", "S">>

D_PT5S == <<"P", "T", "5", "S">>

P_2024 == <<"2", "0", "2", "4", "-", "0", "1", "-", "0", "2", "T", "0", "3", ":", "0", "4", ":", "0", "5", "Z">>

P_2023 == <<"2", "0", "2", "3", "-", "1", "2", "-", "3", "1", "T", "2", "3", ":", "5", "9", ":", "5", "9", "Z">>

(***************************************************************************)
(* What the API can answer.                                                *)
(***************************************************************************)
\* videos.list items: id, snippet, statistics, contentDetails
VideoItem(id, title, ch, chid, dur, vc, pub) ==
    [id |-> id, title |-> title, channelTitle |-> ch, channelId |-> chid,
     duration |-> dur, viewCount |-> vc, publishedAt |-> pub]

VideoDB ==
    { VideoItem(1, T_CAT_GAME, "ChanA", "UC_A", Some(D_PT45S), Some(<<"1","0","0">>), Some(P_2024)),
      VideoItem(2, T_CAFE_VLOG, "ChanB", "UC_B", Some(D_PT1H2M3S), None, None),
      VideoItem(3, T_DOG, "ChanB", "UC_B", None, Some(<<"0">>), Some(P_2023)),
      VideoItem(51, T_TRAVEL, "ChanA", "UC_C", Some(D_PT5S), Some(<<"7">>), Some(P_2023)) }

\* search.list answers once L ids are collected: the items' id.videoId (None: an
\* item without one) and the nextPageToken
SearchPages(L) ==
    { [items |-> it, nextPageToken |-> tok] :
        it \in { <<>>,
                 <<None, Some(L + 1)>>,
                 <<Some(1)>>,
                 [i \in 1..per_page |-> Some(L + i)] },
        tok \in {None, Some("tok")} }

\* videos.list answers: up to n items of the database db, in any order
DetailAnswers(db, n) == SeqsUpTo(db, n)

(***************************************************************************)
(* What the user can ask (the arguments perform_search passes).            *)
(***************************************************************************)
BaseRequest ==
    [fetch_total |-> 2,
     include_words |-> <<>>, exclude_words |-> <<>>,
     include_channels |-> <<>>, exclude_channels |-> <<>>,
     include_channel_ids |-> <<>>, exclude_channel_ids |-> <<>>,
     min_seconds |-> None, max_seconds |-> None,
     age_tag |-> NoAgeTag]

Requests ==
    LET W_DO_UPPER == <<"D", "O">>
        W_G == <<"g">>
        W_GAME == <<"_ge", "_im">>
        W_DOG == <<"d", "o", "g">>
    IN
        { BaseRequest,
          [BaseRequest EXCEPT !.fetch_total = 0],
          [BaseRequest EXCEPT !.fetch_total = 120],
          [BaseRequest EXCEPT !.fetch_total = 600],
          [BaseRequest EXCEPT !.include_words = <<W_DO_UPPER, W_G>>],
          [BaseRequest EXCEPT !.exclude_words = <<W_DOG, W_GAME>>],
          [BaseRequest EXCEPT !.include_channels = <<"ChanA">>, !.exclude_channel_ids = <<"UC_C">>],
          [BaseRequest EXCEPT !.exclude_channels = <<"ChanA">>, !.include_channel_ids = <<"UC_A", "UC_B">>],
          [BaseRequest EXCEPT !.min_seconds = Some(10), !.max_seconds = Some(60)],
          [BaseRequest EXCEPT !.age_tag = "10dae"],
          [BaseRequest EXCEPT !.age_tag = "20dae"],
          [BaseRequest EXCEPT !.include_words = <<W_G>>, !.exclude_channel_ids = <<"UC_B">>,
                              !.max_seconds = Some(60), !.age_tag = "10dae"] }

SortModes == {"johoesusun", "choesinsun"}   \* "조회수순" (by views), "최신순" (newest)

(***************************************************************************)
(* search_youtube                                                          *)
(***************************************************************************)
\* fetch_total = max(1, min(int(fetch_total), MAX_YT_PER_QUERY))
ClampTotal(n) == Max(1, Min(n, MAX_YT_PER_QUERY))

\* ids = [videoId for it in items if videoId]
PageIds(items) ==
    LET kept == SelectSeq(items, LAMBDA it : it # None)
    IN  [i \in 1..Len(kept) |-> kept[i][1]]

\* list(dict.fromkeys(ids)): first occurrences, in order.  Computed by halves to
\* keep the evaluation shallow on lists of several pages: the first occurrences
\* of the left half, then those of the right half that the left half lacks.
RECURSIVE DedupRange(_, _, _)
DedupRange(ids, lo, hi) ==
    IF lo > hi THEN <<>>
    ELSE IF lo = hi THEN <<ids[lo]>>
    ELSE LET mid  == (lo + hi) \div 2
             a    == DedupRange(ids, lo, mid)
             b    == DedupRange(ids, mid + 1, hi)
             seen == Range(a)
         IN  a \o SelectSeq(b, LAMBDA x : x \notin seen)

DedupIds(ids) == DedupRange(ids, 1, Len(ids))

\* `if not ids: break`
NoIdsMutant(ids) == FALSE
NoIds(ids) == ids = <<>>

\* the paging loop ends after a page: `if not page_token or len(collected_ids) >=
\* fetch_total: break`, and the `while len(collected_ids) < fetch_total` test
PagingStopsMutant(tok, all, total) == tok = None
PagingStops(tok, all, total) == tok = None \/ Len(all) >= total \/ ~(Len(all) < total)

\* s[:n]
PrefixMutant(s, n) == s
Prefix(s, n) == SubSeq(s, 1, Min(n, Len(s)))

\* int(stt.get("viewCount", 0)) if stt.get("viewCount") else None
ViewsOf(vc) ==
    IF vc = None \/ vc[1] = <<>> THEN None ELSE Some(IntOf(vc[1], 1, Len(vc[1]) + 1))

UrlOf(vid) == <<"https://www.youtube.com/watch?v=", vid>>

\* the filters of the detail loop: TRUE when the item is kept
PassesFiltersMutant(v, r, seconds) ==
    LET title_l == lower(v.title)
    IN  /\ ~(r.include_words # <<>> /\ ~(\E w \in Range(r.include_words) : Contains(lower(w), title_l)))
        /\ ~(r.exclude_words # <<>> /\ (\E w \in Range(r.exclude_words) : Contains(lower(w), title_l)))
        /\ ~(r.include_channels # <<>> /\ v.channelTitle \notin Range(r.include_channels))
        /\ ~(r.exclude_channels # <<>> /\ v.channelTitle \in Range(r.exclude_channels))
        /\ ~(r.include_channel_ids # <<>> /\ v.channelId \notin Range(r.include_channel_ids))
        /\ ~(r.exclude_channel_ids # <<>> /\ v.channelId \in Range(r.exclude_channel_ids))
        /\ ~(\/ (r.min_seconds # None /\ seconds < r.min_seconds[1])
             \/ (r.max_seconds # None /\ seconds > r.max_seconds[1]))
PassesFilters(v, r, seconds) ==
    LET title_l == lower(v.title)
    IN  /\ ~(r.include_words # <<>> /\ ~(\A w \in Range(r.include_words) : Contains(lower(w), title_l)))
        /\ ~(r.exclude_words # <<>> /\ (\E w \in Range(r.exclude_words) : Contains(lower(w), title_l)))
        /\ ~(r.include_channels # <<>> /\ v.channelTitle \notin Range(r.include_channels))
        /\ ~(r.exclude_channels # <<>> /\ v.channelTitle \in Range(r.exclude_channels))
        /\ ~(r.include_channel_ids # <<>> /\ v.channelId \notin Range(r.include_channel_ids))
        /\ ~(r.exclude_channel_ids # <<>> /\ v.channelId \in Range(r.exclude_channel_ids))
        /\ ~(\/ (r.min_seconds # None /\ seconds < r.min_seconds[1])
             \/ (r.max_seconds # None /\ seconds > r.max_seconds[1]))

\* the dict appended to out; src is the item it was built from (not a field of
\* the program's dict: kept to state what the record came from)
RecordOf(v) ==
    LET seconds == parse_iso8601_duration(v.duration)
    IN  [platform |-> "YouTube", title |-> v.title, author |-> v.channelTitle,
         views |-> ViewsOf(v.viewCount), url |-> UrlOf(v.id), videoId |-> v.id,
         publishedAt |-> v.publishedAt, durationSec |-> seconds,
         isShorts |-> IsShortsOf(seconds), age_score |-> None, src |-> v]

\* `for v in vjson.get("items", [])`: out after the items
DetailRecords(o, items, r) ==
    LET F[i \in 0..Len(items)] ==
            IF i = 0 THEN o
            ELSE LET prev == F[i - 1]
                 IN  IF PassesFilters(items[i], r, parse_iso8601_duration(items[i].duration))
                     THEN Append(prev, RecordOf(items[i]))
                     ELSE prev
    IN  F[Len(items)]

\* Python's a > b on str
RECURSIVE StrGt(_, _)
StrGt(a, b) ==
    \* code points, as far as the texts compared here need them
    LET OrderedChars == <<"-", "0", "1", "2", "3", "4", "5", "6", "7", "8", "9", ":", "T", "Z">>
        CharOrd(c) == CHOOSE i \in 1..Len(OrderedChars) : OrderedChars[i] = c
    IN  IF a = <<>> THEN FALSE
        ELSE IF b = <<>> THEN TRUE
        ELSE IF a[1] = b[1] THEN StrGt(Tail(a), Tail(b))
        ELSE CharOrd(a[1]) > CharOrd(b[1])

\* x["views"] or -1   /   x.get("views") or 0
ViewsOr(x, dflt) == IF x.views = None \/ x.views[1] = 0 THEN dflt ELSE x.views[1]

AgeScoreOr0(x) == IF x.age_score = None THEN 0 ELSE x.age_score[1]

\* the key of record x in a sort: "views" is (x["views"] or -1), "date" is
\* (x.get("publishedAt","") or ""), "age" is (_age_score, views or 0), "views0" is
\* (x.get("views") or 0), "age_eng" is (_age_score, _eng_score)
SortKey(mode, x) ==
    \* x.get("publishedAt","") or ""
    LET PublishedOr(y) == IF y.publishedAt = None THEN <<>> ELSE y.publishedAt[1]
    IN
    CASE mode = "views"   -> ViewsOr(x, -1)
      [] mode = "date"    -> PublishedOr(x)
      [] mode = "age"     -> <<AgeScoreOr0(x), ViewsOr(x, 0)>>
      [] mode = "views0"  -> ViewsOr(x, 0)
      [] mode = "age_eng" -> <<AgeScoreOr0(x), x.eng_score>>
      [] mode = "ext"     -> x.ext_score

\* Python's k1 > k2 on two such keys
KeyOrderGt(mode, k1, k2) ==
    CASE mode \in {"views", "views0", "ext"} -> k1 > k2
      [] mode = "date"                -> StrGt(k1, k2)
      [] mode \in {"age", "age_eng"}  -> \/ k1[1] > k2[1]
                                         \/ (k1[1] = k2[1] /\ k1[2] > k2[2])

\* list.sort(key=..., reverse=True): descending in the key, and stable: records
\* of equal key keep their order
SortDesc(mode, s) ==
    IF s = <<>> THEN <<>>
    ELSE
    LET K == {SortKey(mode, s[i]) : i \in 1..Len(s)}
        m == Cardinality(K)
        \* the r-th greatest key
        KeyAt(r) == CHOOSE k \in K :
                        Cardinality({o \in K : KeyOrderGt(mode, o, k)}) = r - 1
        G[r \in 0..m] ==
            IF r = 0 THEN <<>>
            ELSE LET prev == G[r - 1]
                     key  == KeyAt(r)
                 IN  prev \o SelectSeq(s, LAMBDA x : SortKey(mode, x) = key)
    IN  G[m]

\* [x for x in s if P(x)] for the two age comprehensions
AgeFilterMutant(o, age_tag) ==
    LET keep1 == SelectSeq(o, LAMBDA x : ~age_negative_hit(x.title, age_tag))
        scored == [i \in 1..Len(keep1) |->
                     [keep1[i] EXCEPT !.age_score = Some(age_relevance_score(keep1[i].title, age_tag))]]
        keep2 == SelectSeq(scored, LAMBDA x : AgeScoreOr0(x) >= 0)
    IN  SortDesc("age", keep2)
AgeFilter(o, age_tag) ==
    LET keep1 == SelectSeq(o, LAMBDA x : ~age_negative_hit(x.title, age_tag))
        scored == [i \in 1..Len(keep1) |->
                     [keep1[i] EXCEPT !.age_score = Some(age_relevance_score(keep1[i].title, age_tag))]]
        keep2 == SelectSeq(scored, LAMBDA x : AgeScoreOr0(x) >= 1)
    IN  SortDesc("age", keep2)

\* the final pass: the first record of every url
DedupByUrlMutant(o) == o
DedupByUrl(o) ==
    LET idx   == [i \in 1..Len(o) |-> i]
        first == SelectSeq(idx, LAMBDA i : \A j \in 1..(i - 1) : o[j].url # o[i].url)
    IN  [k \in 1..Len(first) |-> o[first[k]]]

\* from the default sort to the return
PostProcess(o, sort, age_tag) ==
    LET sorted == IF sort = "johoesusun" THEN SortDesc("views", o) ELSE SortDesc("date", o)
        aged   == IF age_tag # NoAgeTag THEN AgeFilter(sorted, age_tag) ELSE sorted
    IN  DedupByUrl(aged)

(***************************************************************************)
(* The recommendation block: fetch_trending_with_engagement, the seed      *)
(* keywords, fallback_age_recommendations and keyword_ranked_recos.        *)
(***************************************************************************)
D_P1D == <<"P", "1", "D">>

D_PT1M == <<"P", "T", "1", "M">>

\* the videos of the chart and of the seed searches: the fields of VideoItem
\* and statistics.likeCount / statistics.commentCount
ChartVideo(v, likes, comments) ==
    [id |-> v.id, title |-> v.title, channelTitle |-> v.channelTitle,
     channelId |-> v.channelId, duration |-> v.duration, viewCount |-> v.viewCount,
     publishedAt |-> v.publishedAt, likeCount |-> likes, commentCount |-> comments]

ChartVideos ==
    << ChartVideo(VideoItem(0, T_CAT_GAME, "ChanA", "UC_A", Some(D_PT45S),
                            Some(<<"1","0","0">>), Some(P_2024)), Some(<<"5">>), Some(<<"1">>)),
       ChartVideo(VideoItem(0, T_CAFE_VLOG, "ChanB", "UC_B", Some(D_PT1H2M3S),
                            None, None), None, None),
       ChartVideo(VideoItem(0, T_DOG, "ChanB", "UC_B", None,
                            Some(<<"0">>), Some(P_2023)), Some(<<"2">>), None),
       ChartVideo(VideoItem(0, T_TRAVEL, "ChanA", "UC_C", Some(D_P1D),
                            Some(<<"7">>), Some(P_2023)), Some(<<"3">>), Some(<<"4">>)),
       ChartVideo(VideoItem(0, T_CAFE_VLOG, "ChanC", "UC_D", Some(D_PT1M),
                            Some(<<"7">>), Some(P_2024)), Some(<<"9">>), Some(<<"0">>)) >>

\* videos.list(chart=mostPopular) answers once L records are collected: no item,
\* a short page or a full page, with or without nextPageToken
ChartPages(L) ==
    LET \* the k-th video of the chart
        ChartItem(k) == [ChartVideos[(k % Len(ChartVideos)) + 1] EXCEPT !.id = k]
    IN
    { [items |-> it, nextPageToken |-> tok] :
        it \in { <<>>,
                 [i \in 1..ShortPage |-> ChartItem(L + i)],
                 [i \in 1..per_page |-> ChartItem(L + i)] },
        tok \in {None, Some("tok")} }

\* (l + c) / (v ** 0.85), in thousandths
compute_engagement_score(stats) ==
    LET \* int(stats.get(k, 0) or 0)
        StatInt(x) == IF x = None \/ x[1] = <<>> THEN 0 ELSE IntOf(x[1], 1, Len(x[1]) + 1)
        v == Max(1, StatInt(stats.viewCount))
        l == StatInt(stats.likeCount)
        c == StatInt(stats.commentCount)
        \* v ** 0.85 in thousandths, for the view counts of the videos above
        Pow085(n) ==
            CASE n = 1   -> 1000
              [] n = 7   -> 5228
              [] n = 100 -> 50119
    IN  ((l + c) * 1000000) \div Pow085(v)

\* the dict appended to collected (src as in RecordOf)
TrendRecord(v) ==
    LET seconds == parse_iso8601_duration(v.duration)
    IN  [platform |-> "YouTube", title |-> v.title, author |-> v.channelTitle,
         views |-> ViewsOf(v.viewCount), url |-> UrlOf(v.id), videoId |-> v.id,
         publishedAt |-> v.publishedAt, durationSec |-> seconds,
         isShorts |-> IsShortsOf(seconds),
         eng_score |-> compute_engagement_score(v), age_score |-> None, src |-> v]

\* the age block of fetch_trending_with_engagement
TrendAgeFilter(o, age_tag) ==
    LET titles == {o[i].title : i \in 1..Len(o)}
        neg    == {t \in titles : age_negative_hit(t, age_tag)}
        scores == {<<t, age_relevance_score(t, age_tag)>> : t \in titles}
        score(t) == (CHOOSE p \in scores : p[1] = t)[2]
        keep1  == SelectSeq(o, LAMBDA x : x.title \notin neg)
        scored == [i \in 1..Len(keep1) |->
                     [keep1[i] EXCEPT !.age_score = Some(score(keep1[i].title))]]
        keep2  == SelectSeq(scored, LAMBDA x : AgeScoreOr0(x) >= 1)
    IN  SortDesc("age_eng", keep2)

\* the candidates: collected after the sort and the age block
TrendCandidates(all, order_mode, age_tag) ==
    LET sorted == IF order_mode = "viewCount" THEN SortDesc("views", all)
                  ELSE SortDesc("date", all)
    IN  IF age_tag # NoAgeTag THEN TrendAgeFilter(sorted, age_tag) ELSE sorted

\* pool_size = max(40, int(len(collected) * 0.6))
PoolSizeMutant(n) == n
PoolSize(n) == Max(POOL_MIN, (n * POOL_PERCENT) \div 100)

\* max(60, min(120, len(pool)))
ReturnSize(n) == Max(RETURN_MIN, Min(RETURN_MAX, n))

\* the argument of random.Random: salt or int(time.time())
SeedMutant(salt, now) == now
Seed(salt, now) == IF salt # 0 THEN salt ELSE now

\* rnd.shuffle(pool): a permutation of pool fixed by the seed and len(pool).
\* (The generator's own stream is not reproduced: the permutation taken here
\* is k -> (k * p + seed) mod n for a p that does not divide n.)
Shuffle(seed, pool) ==
    LET n == Len(pool)
        p == CHOOSE q \in {7, 11, 13} :
                 /\ n % q # 0
                 /\ \A q2 \in {7, 11, 13} : n % q2 # 0 => q <= q2
    IN  [k \in 1..n |-> pool[(((k - 1) * p + seed) % n) + 1]]

\* fetch_trending_with_engagement from `if not collected: return []` on, for
\* the candidates cands; now is int(time.time())
TrendFinish(cands, salt, now) ==
    IF cands = <<>>
    THEN [ret |-> <<>>, candidates |-> 0, head |-> 0]
    ELSE LET pool == Prefix(cands, PoolSize(Len(cands)))
             shuffled == Shuffle(Seed(salt, now), pool)
         IN  [ret |-> Prefix(shuffled, ReturnSize(Len(pool))),
              candidates |-> Len(cands), head |-> Len(pool)]

\* except requests.exceptions.HTTPError
IsHTTPError(e) == e \in {"HTTPError403", "HTTPError400"}

\* order_mode = "viewCount" if st.session_state.yt_sort == "조회수순" else "date"
OrderMode(sort) == IF sort = "johoesusun" THEN "viewCount" ELSE "date"

(***************************************************************************)
(* build_age_seed_queries                                                  *)
(***************************************************************************)
BAN == { <<"_geon", "_gang">>, <<"_yeo", "_haeng">>, <<"_yo", "_ri">>,
         <<"_ga", "_jog">>, <<"_chwi", "_mi">> }

\* ["교양", "뉴스"]
GENERIC_SEEDS == << <<"_gyo", "_yang">>, <<"_nyu", "_seu">> >>

\* while len(qs) < topk and len(keys) > len(qs): qs.append(keys[len(qs)])
RECURSIVE PadSeeds(_, _, _)
PadSeeds(qs, keys, topk) ==
    IF Len(qs) < topk /\ Len(keys) > Len(qs)
    THEN PadSeeds(Append(qs, keys[Len(qs) + 1]), keys, topk)
    ELSE qs

build_age_seed_queries(age_tag, topk) ==
    LET keys == IF age_tag \in AgeTags THEN AGE_KEYWORDS(age_tag) ELSE <<>>
        qs   == PadSeeds(Prefix(SelectSeq(keys, LAMBDA k : k \notin BAN), topk), keys, topk)
    IN  IF qs = <<>> THEN GENERIC_SEEDS ELSE qs

(***************************************************************************)
(* The seed searches of fallback_age_recommendations and                   *)
(* keyword_ranked_recos.                                                   *)
(***************************************************************************)
\* the arguments of the seed searches
SeedRequest(age_tag, fetch_total) ==
    [BaseRequest EXCEPT !.fetch_total = fetch_total, !.age_tag = age_tag]

\* What the search for the i-th seed comes to: it raises, or videos.list
\* answers with MaxSeedVideos videos of its own, or with the same
\* MaxSeedVideos videos as for any other seed.
SeedAnswers == {"raise", "own", "same"}

\* the videos a seed search is answered with: those of the chart and one more
SeedVideos ==
    Append(ChartVideos,
           ChartVideo(VideoItem(0, <<"_kaem", "_ping">>, "ChanC", "UC_D", Some(D_PT45S),
                                Some(<<"7">>), Some(P_2023)), Some(<<"3">>), None))

SeedItems(a, i) ==
    LET base == IF a = "own" THEN 1000 * i ELSE 0
        n    == MaxSeedVideos
        \* the videos next to videos 2 and 5 in such an answer
        OtherVideos == <<1, 3, 4, 6>>
        tmpl(k) == IF k > n - Len(OtherVideos) THEN OtherVideos[k - (n - Len(OtherVideos))]
                   ELSE IF k % 2 = 0 THEN 2 ELSE 5
    IN  [k \in 1..n |-> [SeedVideos[tmpl(k)] EXCEPT !.id = base + k]]

\* the list search_youtube returns for the i-th seed when it does not raise
SeedRows(a, i, r, sort) == PostProcess(DetailRecords(<<>>, SeedItems(a, i), r), sort, r.age_tag)

\* the answers to n seed searches: the first j - 1 are a, the others b
SeedScripts(n) ==
    { [i \in 1..n |-> IF i < j THEN a ELSE b] :
        j \in 1..n, a \in SeedAnswers, b \in SeedAnswers }

\* SeedRows for every position 1..n and every answer that is not a raise
SeedRowsAll(n, r, sort) ==
    {<<i, a, SeedRows(a, i, r, sort)>> : i \in 1..n, a \in SeedAnswers \ {"raise"}}

\* the entry of such a table for position i and answer a
RowsAt(rows, i, a) == (CHOOSE t \in rows : t[1] = i /\ t[2] = a)[3]

\* for q in qs: try: gathered.extend(search_youtube(...)) except Exception: continue
RECURSIVE Gather(_, _, _)
Gather(script, i, rows) ==
    IF i > Len(script) THEN <<>>
    ELSE (IF script[i] = "raise" THEN <<>> ELSE RowsAt(rows, i, script[i]))
         \o Gather(script, i + 1, rows)

\* fallback_age_recommendations after the loop: dedup, sort, cap
FallbackFinish(gathered) == Prefix(SortDesc("views0", DedupByUrl(gathered)), FALLBACK_CAP)

\* keyword_ranked_recos: what the loop has for each position of keywords
BoardLog(kws, script, rows) ==
    [i \in 1..Len(kws) |->
        IF script[i] = "raise" THEN [raised |-> TRUE, rows |-> <<>>]
        ELSE [raised |-> FALSE, rows |-> RowsAt(rows, i, script[i])]]

\* board after the loop: board[kw] = rows[:per_keyword], or [] in the except branch
BoardOf(kws, log) ==
    [kw \in Range(kws) |->
        LET at == {i \in 1..Len(kws) : kws[i] = kw}
            i  == CHOOSE x \in at : \A y \in at : y <= x
        IN  IF log[i].raised THEN <<>> ELSE Prefix(log[i].rows, PER_KEYWORD)]

\* `if not reco_candidates or len(reco_candidates) < 12`
NeedsFallbackMutant(ret) == ret = <<>> \/ Len(ret) <= MIN_RECO
NeedsFallback(ret) == ret = <<>> \/ Len(ret) < MIN_RECO

(***************************************************************************)
(* rank_external_results                                                   *)
(***************************************************************************)
\* domain_weight, in tenths
domain_weight(url) ==
    IF url = <<>> THEN 0
    ELSE LET u == lower(url)
             tiktok    == <<"t", "i", "k", "t", "o", "k", ".", "c", "o", "m">>
             instagram == <<"i", "n", "s", "t", "a", "g", "r", "a", "m", ".", "c", "o", "m">>
             facebook  == <<"f", "a", "c", "e", "b", "o", "o", "k", ".", "c", "o", "m">>
             fbwatch   == <<"f", "b", ".", "w", "a", "t", "c", "h">>
             xcom      == <<"x", ".", "c", "o", "m">>
             twitter   == <<"t", "w", "i", "t", "t", "e", "r", ".", "c", "o", "m">>
             naver     == <<"n", "a", "v", "e", "r", ".", "c", "o", "m">>
             daum      == <<"d", "a", "u", "m", ".", "n", "e", "t">>
         IN  IF Contains(tiktok, u) THEN 30
             ELSE IF Contains(instagram, u) THEN 25
             ELSE IF Contains(facebook, u) \/ Contains(fbwatch, u) THEN 18
             ELSE IF Contains(xcom, u) \/ Contains(twitter, u) THEN 16
             ELSE IF Contains(naver, u) \/ Contains(daum, u) THEN 12
             ELSE 10

\* str.split(): the words of s between blanks
RECURSIVE SplitWords(_, _)
SplitWords(s, word) ==
    IF s = <<>> THEN (IF word = <<>> THEN <<>> ELSE <<word>>)
    ELSE IF s[1] = " "
         THEN (IF word = <<>> THEN <<>> ELSE <<word>>) \o SplitWords(Tail(s), <<>>)
         ELSE SplitWords(Tail(s), Append(word, s[1]))

\* b = (r.get("title","") + " " + r.get("snippet","")).lower()
Body(r) == lower(r.title \o <<" ">> \o r.snippet)

\* sum(1 for t in toks if t in b)
Hits(words, b) == Cardinality({w \in words : Contains(w, b)})

\* title_sim, in tenths
TitleSim(tlo, b) ==
    LET cands == <<Prefix(tlo, 20)>> \o Prefix(SplitWords(tlo, <<>>), 3)
    IN  IF \E i \in 1..Len(cands) : cands[i] # <<>> /\ Contains(cands[i], b)
        THEN 10 ELSE 0

\* the relevance floor: `if hit_tok==0 and hit_key==0: continue`
RelevantMutant(hit_tok, hit_key) == TRUE
Relevant(hit_tok, hit_key) == ~(hit_tok = 0 /\ hit_key = 0)

\* r2, with _ext_score in tenths
Scored(r, toks, keys, tlo) ==
    LET b == Body(r)
    IN  [title |-> r.title, link |-> r.link, snippet |-> r.snippet,
         ext_score |-> Hits(toks, b) * 20 + Hits(keys, b) * 12
                           + domain_weight(r.link) + TitleSim(tlo, b)]

\* d = re.sub(r"^https?://(www\.)?", "", r["link"]).split("/")[0]
DomainOf(link) ==
    LET https == <<"h", "t", "t", "p", "s", ":", "/", "/">>
        http  == <<"h", "t", "t", "p", ":", "/", "/">>
        www   == <<"w", "w", "w", ".">>
        StartsWith(s, p) == Len(s) >= Len(p) /\ SubSeq(s, 1, Len(p)) = p
        Drop(s, n) == SubSeq(s, n + 1, Len(s))
        noScheme == IF StartsWith(link, https) THEN Drop(link, Len(https))
                    ELSE IF StartsWith(link, http) THEN Drop(link, Len(http))
                    ELSE link
        host     == IF noScheme # link /\ StartsWith(noScheme, www)
                    THEN Drop(noScheme, Len(www)) ELSE noScheme
        slashes  == {i \in 1..Len(host) : host[i] = "/"}
    IN  IF slashes = {} THEN host
        ELSE Prefix(host, (CHOOSE i \in slashes : \A j \in slashes : i <= j) - 1)

\* the loop over ranked: at most DOMAIN_LIMIT results of one domain
DomainFilter(ranked_) ==
    LET idx  == [i \in 1..Len(ranked_) |-> i]
        keep == SelectSeq(idx, LAMBDA i :
                    Cardinality({j \in 1..(i - 1) :
                        DomainOf(ranked_[j].link) = DomainOf(ranked_[i].link)}) < DOMAIN_LIMIT)
    IN  [k \in 1..Len(keep) |-> ranked_[keep[k]]]

rank_external_results(tokens, title, results, extra_keys) ==
    IF results = <<>> THEN <<>>
    ELSE LET toks == {lower(t) : t \in tokens}
             keys == {lower(k) : k \in Range(extra_keys)}
             tlo  == lower(title)
             hits == SelectSeq(results, LAMBDA r :
                         Relevant(Hits(toks, Body(r)), Hits(keys, Body(r))))
             scored == [i \in 1..Len(hits) |-> Scored(hits[i], toks, keys, tlo)]
         IN  Prefix(DomainFilter(SortDesc("ext", scored)), RANK_CAP)

\* texts of the source-trace inputs
TOK_ABC == <<"@", "a", "b", "c">>

TOK_1234 == <<"#", "1", "2", "3", "4">>

KEY_CAT == <<"c", "a", "t">>

KEY_GAME == <<"g", "a", "m", "e">>

TITLE_DOG == <<"D", "o", "g", " ", "S", "h", "o", "w">>

\* a web search result
WebResult(title, link, snippet) == [title |-> title, link |-> link, snippet |-> snippet]

\* results of web_search: with a token in other case, with a keyphrase, and
\* without any hit (on the heaviest domain, title like the video's; without link)
WebResults ==
    { WebResult(<<"C", "l", "i", "p">>, <<"h", "t", "t", "p", "s", ":", "/", "/", "w", "w", "w", ".", "x", ".", "c", "o", "m", "/", "a">>, <<"b", "y", " ", "@", "A", "B", "C">>),
      WebResult(<<"C", "a", "t">>, <<"h", "t", "t", "p", ":", "/", "/", "n", "a", "v", "e", "r", ".", "c", "o", "m", "/", "c">>, <<"g", "a", "m", "e">>),
      WebResult(<<"d", "o", "g", " ", "s", "h", "o", "w">>, <<"h", "t", "t", "p", "s", ":", "/", "/", "w", "w", "w", ".", "t", "i", "k", "t", "o", "k", ".", "c", "o", "m", "/", "b">>, <<>>),
      WebResult(<<"z", "z", "z">>, <<>>, <<>>),
      WebResult(<<"c", "a", "t", " ", "#", "1", "2", "3", "4">>, <<"h", "t", "t", "p", "s", ":", "/", "/", "x", ".", "c", "o", "m", "/", "d">>, <<"d", "o", "g">>),
      WebResult(<<"c", "a", "t">>, <<"h", "t", "t", "p", "s", ":", "/", "/", "m", ".", "x", ".", "c", "o", "m", "/", "e">>, <<>>) }

\* the arguments of rank_external_results
TraceInputs ==
    { [tokens |-> tk, title |-> ti, results |-> rs, extra_keys |-> ek] :
        tk \in SUBSET {TOK_ABC, TOK_1234},
        ti \in {<<>>, TITLE_DOG},
        rs \in SeqsUpTo(WebResults, MaxResults),
        ek \in {<<>>, <<KEY_CAT>>, <<KEY_CAT, KEY_GAME>>} }

NoTraceInput == [tokens |-> {}, title |-> <<>>, results |-> <<>>, extra_keys |-> <<>>]

(***************************************************************************)
(* perform_search                                                          *)
(***************************************************************************)
\* the message perform_search shows for the exception it caught
ErrorReport(e) ==
    LET msg == str(e)
    IN  IF Contains(<<"quotaExceeded">>, msg) \/ Contains(<<"403", "Client", "Error">>, msg)
        THEN "quota_exhausted" ELSE "search_error"

(***************************************************************************)
(* The script of the page: one run from the top for one widget event, and  *)
(* the source-trace view it renders at its end.                            *)
(***************************************************************************)
\* the session after init_state(), as far as the triggers of the script read
\* it; results_df is "empty" or "rows", view is st.query_params["view"]
NoUI ==
    [manual_api_mode |-> TRUE, want_reco_now |-> FALSE, want_kwboard_now |-> FALSE,
     do_search_now |-> FALSE, age_filter |-> NoAgeTag, sb_query |-> "prank",
     search_history |-> <<>>, results_df |-> "empty", view |-> ""]

NoEvent == [widget |-> "none", arg |-> ""]

\* nothing of the source-trace view was rendered
NoTrace == [report |-> "none", web_searches |-> 0, ranked |-> None, closed |-> FALSE]

NoRun == [event |-> NoEvent, manual |-> TRUE, ran |-> <<>>, trace |-> NoTrace]

NoSecrets == [CSE_API_KEY |-> "", CSE_CX |-> ""]

\* the widgets the page rendered for the session s offers: what the user can
\* do next ("other" is a widget without a handler of its own)
Events(s) ==
    LET \* texts of the search box
        Queries == {"prank", "cat"}
        \* the age chips the user clicks (two of the six: one handler serves them all)
        ChipTags == {"10dae", "50dae"}
    IN
    {[widget |-> w, arg |-> ""] : w \in {"other", "toggle"}}
    \cup {[widget |-> "hist", arg |-> q] : q \in Range(s.search_history)}
    \cup {[widget |-> "submit", arg |-> q] : q \in Queries \cup {""}}
    \cup {[widget |-> "chip", arg |-> a] : a \in ChipTags}
    \cup (IF s.manual_api_mode
          THEN {[widget |-> w, arg |-> ""] : w \in {"btn_load_reco", "btn_load_kwboard"}}
          ELSE {})
    \cup (IF s.results_df = "rows" /\ s.view = ""
          THEN {[widget |-> "open_trace", arg |-> ""]} ELSE {})
    \cup (IF s.view = "trace"
          THEN {[widget |-> "trace_close", arg |-> ""]}
               \cup (IF s.manual_api_mode THEN {[widget |-> "btn_trace_go", arg |-> ""]}
                     ELSE {})
          ELSE {})

\* `if not s.manual_api_mode:` before a trigger flag is set
AutoLoadsMutant(manual) == TRUE

AutoLoads(manual) == ~manual

\* `if not (CSE_API_KEY and CSE_CX)`, and the same test in web_search
HasCredentialsMutant(sec) == sec.CSE_API_KEY # "" \/ sec.CSE_CX # ""

HasCredentials(sec) == sec.CSE_API_KEY # "" /\ sec.CSE_CX # ""

\* render_trace_view for a shorts row whose tokens, keyphrases and web search
\* answers are those of tin; key_str is empty exactly when there is no
\* keyphrase. web_searches counts the web_search calls that send a request.
render_trace_view(manual, widget, sec, tin) ==
    IF widget = "trace_close" THEN [NoTrace EXCEPT !.closed = TRUE]
    ELSE IF manual /\ widget # "btn_trace_go"
    THEN [NoTrace EXCEPT !.report = "info_press_start"]
    ELSE IF tin.tokens = {} /\ tin.extra_keys = <<>>
    THEN [NoTrace EXCEPT !.report = "warning_nothing_extracted"]
    ELSE IF ~HasCredentials(sec)
    THEN [NoTrace EXCEPT !.report = "error_no_credentials"]
    ELSE LET r == rank_external_results(tin.tokens, tin.title, tin.results,
                                        tin.extra_keys)
         IN  [report |-> IF r = <<>> THEN "info_no_candidates" ELSE "candidates",
              web_searches |-> SITE_POOL + 1, ranked |-> Some(r), closed |-> FALSE]

\* One run of the script from the top, for the event ev on the session sess:
\* the session after it, the API pipelines it ran in order, whether it ended
\* in st.rerun(), and what the source-trace view did.
ScriptRun(sess, ev, o, sec, tin) ==
    LET Ends(s, ran, rerun, tv) == [session |-> s, ran |-> ran, rerun |-> rerun, trace |-> tv]
        manual == IF ev.widget = "toggle" THEN ~sess.manual_api_mode
                  ELSE sess.manual_api_mode
        s1 == [sess EXCEPT !.manual_api_mode = manual]
        s2 == IF ev.widget = "hist"
              THEN [s1 EXCEPT !.sb_query = ev.arg,
                              !.do_search_now = IF AutoLoads(manual) THEN TRUE ELSE @]
              ELSE s1
        s3 == IF ev.widget = "submit" THEN [s2 EXCEPT !.sb_query = ev.arg] ELSE s2
    IN  IF ev.widget = "chip"
        THEN Ends([s3 EXCEPT !.age_filter = ev.arg, !.results_df = "empty", !.view = "",
                             !.want_reco_now = IF AutoLoads(manual) THEN TRUE ELSE @],
                  <<>>, TRUE, NoTrace)
        ELSE IF manual /\ ev.widget = "btn_load_reco"
        THEN Ends([s3 EXCEPT !.want_reco_now = TRUE], <<>>, TRUE, NoTrace)
        ELSE IF manual /\ ev.widget = "btn_load_kwboard"
        THEN Ends([s3 EXCEPT !.want_kwboard_now = TRUE], <<>>, TRUE, NoTrace)
        ELSE
        LET reco == s3.want_reco_now
            s4   == [s3 EXCEPT !.want_reco_now = FALSE]
        IN  IF reco /\ o.reco = "raise" THEN Ends(s4, <<"reco">>, FALSE, NoTrace)
            ELSE
            LET kw   == s4.want_kwboard_now
                s5   == [s4 EXCEPT !.want_kwboard_now = FALSE]
                trig == ev.widget = "submit" \/ s5.do_search_now
                s6   == IF trig THEN [s5 EXCEPT !.do_search_now = FALSE] ELSE s5
                q    == s6.sb_query
                srch == trig /\ q # ""
                h1   == IF q \in Range(s6.search_history) THEN s6.search_history
                        ELSE Append(s6.search_history, q)
                h2   == IF Len(h1) > 10 THEN SubSeq(h1, Len(h1) - 9, Len(h1)) ELSE h1
                s7   == IF srch
                        THEN [s6 EXCEPT !.search_history = h2,
                                        !.results_df = IF o.search = "error" THEN @
                                                       ELSE o.search]
                        ELSE s6
                ran  == (IF reco THEN <<"reco">> ELSE <<>>)
                        \o (IF kw THEN <<"kwboard">> ELSE <<>>)
                        \o (IF srch THEN <<"search">> ELSE <<>>)
            IN  IF s7.results_df = "rows" /\ s7.view = "" /\ ev.widget = "open_trace"
                THEN Ends([s7 EXCEPT !.view = "trace"], ran, TRUE, NoTrace)
                ELSE IF s7.view = "trace"
                THEN LET tv == render_trace_view(manual, ev.widget, sec, tin)
                     IN  IF tv.closed
                         THEN Ends([s7 EXCEPT !.view = ""], ran, TRUE, tv)
                         ELSE Ends(s7, ran, FALSE, tv)
                ELSE Ends(s7, ran, FALSE, NoTrace)

(***************************************************************************)
(* The session.  yt_key_idx and yt_sort are its state; the other variables *)
(* describe the operation in progress or just ended (a search, or a yt_get *)
(* call made outside a search) and start afresh with each operation.       *)
(***************************************************************************)
NoSearch ==
    /\ req = BaseRequest
    /\ collected_ids = <<>>
    /\ page_token = None
    /\ chunk_i = 0
    /\ out = <<>>
    /\ detail_items = <<>>
    /\ result = <<>>
    /\ report = "none"
    /\ err = NoError
    /\ failed_call = NoCall
    /\ search_calls = 0
    /\ video_calls = 0

(***************************************************************************)
(* The recommendation block and the keyword board.                         *)
(***************************************************************************)
\* the tags and salts the recommendation block is run with
TrendTags == {NoAgeTag, "10dae", "20dae"}

Salts == {0, 3}

\* int(time.time()) at the invocation; a second invocation falls in the same
\* second or the next
Clocks == {1000}

NoRecoRequest == [order_mode |-> "viewCount", age_tag |-> NoAgeTag, salt |-> 0]

NoSizes == [candidates |-> 0, head |-> 0]

NoReco ==
    /\ reco_req = NoRecoRequest
    /\ collected = <<>>
    /\ chart_calls = 0
    /\ tr_ret = None
    /\ tr_again = None
    /\ tr_sizes = NoSizes
    /\ tr_err = NoError
    /\ seeds = <<>>
    /\ fb_log = <<>>
    /\ fb_ret = None
    /\ reco_candidates = None
    /\ kw_log = <<>>
    /\ board = None

\* the description of the last recommendation or board load is dropped
ClearReco ==
    /\ reco_req' = NoRecoRequest
    /\ collected' = <<>>
    /\ chart_calls' = 0
    /\ tr_ret' = None
    /\ tr_again' = None
    /\ tr_sizes' = NoSizes
    /\ tr_err' = NoError
    /\ seeds' = <<>>
    /\ fb_log' = <<>>
    /\ fb_ret' = None
    /\ reco_candidates' = None
    /\ kw_log' = <<>>
    /\ board' = None

recoVars == <<reco_req, collected, chart_calls, tr_ret, tr_again, tr_sizes, tr_err,
              seeds, fb_log, fb_ret, reco_candidates, kw_log, board>>

traceVars == <<trace_in, ranked>>

uiVars == <<session, run, secrets>>

\* after init_state(), with a pool of at most maxk keys
InitSession(maxk) ==
    /\ YOUTUBE_API_KEYS \in {KeyPool(n) : n \in 0..maxk}
    /\ yt_key_idx = 0
    /\ yt_sort = "johoesusun"
    /\ last_call = NoCall
    /\ pc = "idle"
    /\ NoSearch
    /\ NoReco
    /\ session = NoUI
    /\ run = NoRun

\* the same, no source trace asked for
InitWith(maxk) ==
    /\ InitSession(maxk)
    /\ trace_in = NoTraceInput
    /\ ranked = None
    /\ secrets = NoSecrets

\* the description of the last search is dropped
ClearSearch ==
    /\ req' = BaseRequest
    /\ collected_ids' = <<>>
    /\ page_token' = None
    /\ chunk_i' = 0
    /\ out' = <<>>
    /\ detail_items' = <<>>
    /\ result' = <<>>
    /\ report' = "none"
    /\ err' = NoError
    /\ failed_call' = NoCall
    /\ search_calls' = 0
    /\ video_calls' = 0

searchVars == <<req, collected_ids, page_token, chunk_i, out, detail_items, result,
                report, err, failed_call, search_calls, video_calls>>

\* one yt_get call made outside a search (the trending pipeline makes such calls)
YtGetCall ==
    /\ pc = "idle"
    /\ \E resp \in Responses(YOUTUBE_API_KEYS) :
         \E c \in {yt_get(YOUTUBE_API_KEYS, yt_key_idx, resp)} :
             /\ last_call' = c
             /\ yt_key_idx' = c.key_idx
    /\ ClearSearch
    /\ ClearReco
    /\ UNCHANGED <<YOUTUBE_API_KEYS, yt_sort, pc>>
    /\ UNCHANGED <<traceVars, uiVars>>

\* the toolbar radio; the script runs again from the top with the new order
SelectSort ==
    /\ pc = "idle"
    /\ \E s \in SortModes : yt_sort' = s
    /\ ClearSearch
    /\ ClearReco
    /\ UNCHANGED <<YOUTUBE_API_KEYS, yt_key_idx, last_call, pc>>
    /\ UNCHANGED <<traceVars, uiVars>>

\* What a yt_get call inside a search can come to: whether it returned, the
\* session's key index after it, and the log of the call when it raised.
YtGetResults(keys, key_idx) ==
    { [ret |-> c.ret, key_idx |-> c.key_idx,
       call |-> IF c.ret = "raise" THEN c ELSE NoCall] :
      c \in {yt_get(keys, key_idx, resp) : resp \in Responses(keys)} }

\* perform_search's except branch for the exception e of the yt_get call c
\* (NoCall: e was not raised by a yt_get call); the
\* locals of search_youtube are gone with its frame
Caught(e, c) ==
    /\ err' = e
    /\ failed_call' = c
    /\ report' = ErrorReport(e)
    /\ pc' = "idle"
    /\ collected_ids' = <<>>
    /\ page_token' = None
    /\ chunk_i' = 0
    /\ out' = <<>>
    /\ detail_items' = <<>>
    /\ UNCHANGED result

\* search_youtube returned res: perform_search stores it
Returned(res) ==
    /\ result' = res
    /\ report' = "ok"
    /\ pc' = "idle"
    /\ UNCHANGED <<err, failed_call>>

\* perform_search up to the first API call of search_youtube
PerformSearch ==
    /\ pc = "idle"
    /\ \E r \in Requests : req' = r
    /\ collected_ids' = <<>>
    /\ page_token' = None
    /\ chunk_i' = 0
    /\ out' = <<>>
    /\ detail_items' = <<>>
    /\ result' = <<>>
    /\ failed_call' = NoCall
    /\ search_calls' = 0
    /\ video_calls' = 0
    /\ last_call' = NoCall
    /\ IF NoKeys(YOUTUBE_API_KEYS)
       THEN /\ err' = "RuntimeErrorNoKey"
            /\ report' = ErrorReport("RuntimeErrorNoKey")
            /\ pc' = "idle"
       ELSE /\ err' = NoError
            /\ report' = "running"
            /\ pc' = "paging"
    /\ ClearReco
    /\ UNCHANGED <<YOUTUBE_API_KEYS, yt_key_idx, yt_sort>>
    /\ UNCHANGED <<traceVars, uiVars>>

\* the end of the paging loop: dedup, truncate, `if not collected_ids: return []`
\* (page_token is not read after the loop: the model drops its value here)
AfterPaging(ids) ==
    \E kept \in {Prefix(DedupIds(ids), ClampTotal(req.fetch_total))} :
        /\ collected_ids' = kept
        /\ page_token' = None
        /\ IF kept = <<>> THEN Returned(<<>>)
           ELSE pc' = "details" /\ UNCHANGED <<err, failed_call, report, result>>

\* one iteration of `while len(collected_ids) < fetch_total`
SearchPage ==
    /\ pc = "paging"
    /\ search_calls < MaxSearchCalls
    /\ \E g \in YtGetResults(YOUTUBE_API_KEYS, yt_key_idx) :
         /\ yt_key_idx' = g.key_idx
         /\ search_calls' = search_calls + 1
         /\ IF g.ret = "raise"
            THEN Caught(g.call.err, g.call)
            ELSE \E sjson \in SearchPages(Len(collected_ids)) :
                   \E ids \in {PageIds(sjson.items)} :
                   \E all \in {collected_ids \o ids} :
                       IF NoIds(ids)
                       THEN /\ AfterPaging(collected_ids)
                            /\ UNCHANGED <<chunk_i, out, detail_items>>
                       ELSE /\ UNCHANGED <<chunk_i, out, detail_items>>
                            /\ IF PagingStops(sjson.nextPageToken, all,
                                              ClampTotal(req.fetch_total))
                               THEN AfterPaging(all)
                               ELSE /\ collected_ids' = all
                                    /\ page_token' = sjson.nextPageToken
                                    /\ UNCHANGED <<pc, err, failed_call, report, result>>
    /\ UNCHANGED <<YOUTUBE_API_KEYS, yt_sort, last_call, req, video_calls, recoVars>>
    /\ UNCHANGED <<traceVars, uiVars>>

\* videos.list items that lack a field or carry an unusable one: no "id", a
\* view count that is no number, a duration that is no PT... text (an item
\* without statistics and one without duration are in VideoDB); the item
\* without "id" has the number -1 here
MalformedItems ==
    { VideoItem(-1, T_CAT_GAME, "ChanA", "UC_A", Some(D_PT45S), Some(<<"5">>), Some(P_2024)),
      VideoItem(52, T_TRAVEL, "ChanA", "UC_C", Some(D_PT5S), Some(<<"a", "b", "c">>),
                Some(P_2023)),
      VideoItem(53, T_DOG, "ChanB", "UC_B", Some(<<"P", "1", "D">>), None, None) }

\* The exception `for v in vjson.get("items", [])` raises for the items, if
\* any: KeyError of v["id"] for the first item without id, ValueError of
\* int(...) for the first item that passes the filters with a view count that
\* is no number.
ItemError(items, r) ==
    LET NoNumber(vc) == vc # None /\ vc[1] # <<>>
                        /\ \E k \in 1..Len(vc[1]) : \A d \in 1..10 : Digits[d] # vc[1][k]
        Raises(v) == \/ v.id < 0
                     \/ /\ PassesFilters(v, r, parse_iso8601_duration(v.duration))
                        /\ NoNumber(v.viewCount)
        bad == {i \in 1..Len(items) : Raises(items[i])}
    IN  IF bad = {} THEN NoError
        ELSE IF items[CHOOSE i \in bad : \A j \in bad : i <= j].id < 0 THEN "KeyError"
        ELSE "ValueError"

\* one iteration of `for i in range(0, len(collected_ids), 50)` for an answer
\* with items of db, and after the last one the sorts, the age filter and the
\* dedup
DetailBatchOf(db) ==
    /\ pc = "details"
    /\ \E g \in YtGetResults(YOUTUBE_API_KEYS, yt_key_idx) :
         /\ yt_key_idx' = g.key_idx
         /\ video_calls' = video_calls + 1
         /\ IF g.ret = "raise"
            THEN Caught(g.call.err, g.call)
            ELSE \E items \in DetailAnswers(db, MaxItems - Len(detail_items)) :
                   IF ItemError(items, req) # NoError
                   THEN Caught(ItemError(items, req), NoCall)
                   ELSE
                   \E o2 \in {DetailRecords(out, items, req)} :
                       /\ out' = o2
                       /\ detail_items' = detail_items \o items
                       /\ chunk_i' = chunk_i + per_page
                       /\ UNCHANGED <<collected_ids, page_token>>
                       /\ IF chunk_i + per_page >= Len(collected_ids)
                          THEN \E res \in {PostProcess(o2, yt_sort, req.age_tag)} :
                                   Returned(res)
                          ELSE UNCHANGED <<pc, err, failed_call, report, result>>
    /\ UNCHANGED <<YOUTUBE_API_KEYS, yt_sort, last_call, req, search_calls, recoVars>>
    /\ UNCHANGED <<traceVars, uiVars>>

\* the same, the API answering with the videos of VideoDB
DetailBatch == DetailBatchOf(VideoDB)

\* fetch_trending_with_engagement returns for the records all, and the script
\* goes on to the test of the candidates. tr_again is what an invocation with
\* the same arguments and the same chart answers returns at another time.
TrendReturns(all, r) ==
    \E cands \in {TrendCandidates(all, r.order_mode, r.age_tag)} :
    \E now \in Clocks : \E later \in {now, now + 1} :
    \E res \in {TrendFinish(cands, r.salt, now)} :
    \E again \in {TrendFinish(cands, r.salt, later)} :
            /\ tr_ret' = Some(res.ret)
            /\ tr_again' = Some(again.ret)
            /\ tr_sizes' = [candidates |-> res.candidates, head |-> res.head]
            /\ collected' = <<>>
            /\ tr_err' = NoError
            /\ IF NeedsFallback(res.ret)
               THEN pc' = "fallback" /\ reco_candidates' = None
               ELSE pc' = "idle" /\ reco_candidates' = Some(res.ret)

\* the exception of the yt_get call c leaves fetch_trending_with_engagement and
\* the script run
TrendRaises(c) ==
    /\ tr_err' = c.err
    /\ pc' = "idle"
    /\ collected' = <<>>
    /\ UNCHANGED <<tr_ret, tr_again, tr_sizes, reco_candidates>>

\* the load button of the recommendations, up to the first chart request
RecoLoad ==
    /\ pc = "idle"
    /\ \E a \in TrendTags, s \in Salts :
         LET r == [order_mode |-> OrderMode(yt_sort), age_tag |-> a, salt |-> s]
         IN  /\ reco_req' = r
             /\ IF NoKeys(YOUTUBE_API_KEYS)
                THEN TrendReturns(<<>>, r)
                ELSE /\ pc' = "trending"
                     /\ collected' = <<>>
                     /\ tr_ret' = None
                     /\ tr_again' = None
                     /\ tr_sizes' = NoSizes
                     /\ tr_err' = NoError
                     /\ reco_candidates' = None
    /\ chart_calls' = 0
    /\ seeds' = <<>>
    /\ fb_log' = <<>>
    /\ fb_ret' = None
    /\ kw_log' = <<>>
    /\ board' = None
    /\ last_call' = NoCall
    /\ ClearSearch
    /\ UNCHANGED <<YOUTUBE_API_KEYS, yt_key_idx, yt_sort>>
    /\ UNCHANGED <<traceVars, uiVars>>

\* one iteration of `while len(collected) < fetch_total`
TrendPage ==
    /\ pc = "trending"
    /\ chart_calls < MaxChartCalls
    /\ \E g \in YtGetResults(YOUTUBE_API_KEYS, yt_key_idx) :
         /\ yt_key_idx' = g.key_idx
         /\ chart_calls' = chart_calls + 1
         /\ IF g.ret = "raise"
            THEN IF IsHTTPError(g.call.err)
                 THEN TrendReturns(collected, reco_req)
                 ELSE TrendRaises(g.call)
            ELSE \E data \in ChartPages(Len(collected)) :
                   \E all \in {collected \o [i \in 1..Len(data.items) |-> TrendRecord(data.items[i])]} :
                       IF data.items = <<>>
                       THEN TrendReturns(collected, reco_req)
                       ELSE IF data.nextPageToken = None \/ Len(all) >= TREND_FETCH_TOTAL
                            THEN TrendReturns(all, reco_req)
                            ELSE /\ collected' = all
                                 /\ UNCHANGED <<pc, tr_ret, tr_again, tr_sizes, tr_err,
                                                reco_candidates>>
    /\ UNCHANGED <<YOUTUBE_API_KEYS, yt_sort, last_call, searchVars,
                   reco_req, seeds, fb_log, fb_ret, kw_log, board>>
    /\ UNCHANGED <<traceVars, uiVars>>

\* the session's key index after the yt_get calls of a run of seed searches
KeyIndexAfter ==
    IF NoKeys(YOUTUBE_API_KEYS) THEN {yt_key_idx}
    ELSE 0..(Len(YOUTUBE_API_KEYS) - 1)

\* the answers to the n seed searches of one run (search_youtube raises at
\* once when there is no key)
SeedRuns(n) ==
    IF NoKeys(YOUTUBE_API_KEYS) THEN {[i \in 1..n |-> "raise"]} ELSE SeedScripts(n)

\* the call of fallback_age_recommendations, up to the first seed search; the
\* list fetch_trending_with_engagement returned is not used any more
Fallback ==
    /\ pc = "fallback"
    /\ seeds' = build_age_seed_queries(reco_req.age_tag, TOPK)
    /\ tr_ret' = None
    /\ tr_again' = None
    /\ tr_sizes' = NoSizes
    /\ chart_calls' = 0
    /\ pc' = "seeds"
    /\ UNCHANGED <<YOUTUBE_API_KEYS, yt_key_idx, yt_sort, last_call, searchVars,
                   reco_req, collected, tr_err, fb_log, fb_ret, reco_candidates,
                   kw_log, board>>
    /\ UNCHANGED <<traceVars, uiVars>>

\* the seed searches of fallback_age_recommendations, its return, and
\* `reco_candidates = fb`
FallbackSearches ==
    /\ pc = "seeds"
    /\ \E rows \in {SeedRowsAll(Len(seeds), SeedRequest(reco_req.age_tag, FB_FETCH_TOTAL), yt_sort)} :
       \E script \in SeedRuns(Len(seeds)) :
       \E fb \in {FallbackFinish(Gather(script, 1, rows))} :
           /\ fb_log' = script
           /\ fb_ret' = Some(fb)
           /\ reco_candidates' = Some(fb)
    /\ yt_key_idx' \in KeyIndexAfter
    /\ pc' = "idle"
    /\ UNCHANGED <<YOUTUBE_API_KEYS, yt_sort, last_call, searchVars,
                   reco_req, collected, chart_calls, tr_ret, tr_again, tr_sizes,
                   tr_err, seeds, kw_log, board>>
    /\ UNCHANGED <<traceVars, uiVars>>

\* the load button of the keyword board: keyword_ranked_recos up to the first
\* search
KeywordBoard ==
    /\ pc = "idle"
    /\ \E a \in AgeTags \cup {NoAgeTag} :
         /\ reco_req' = [order_mode |-> OrderMode(yt_sort), age_tag |-> a, salt |-> 0]
         /\ seeds' = build_age_seed_queries(a, TOPK)
    /\ pc' = "board"
    /\ kw_log' = <<>>
    /\ board' = None
    /\ collected' = <<>>
    /\ chart_calls' = 0
    /\ tr_ret' = None
    /\ tr_again' = None
    /\ tr_sizes' = NoSizes
    /\ tr_err' = NoError
    /\ fb_log' = <<>>
    /\ fb_ret' = None
    /\ reco_candidates' = None
    /\ last_call' = NoCall
    /\ ClearSearch
    /\ UNCHANGED <<YOUTUBE_API_KEYS, yt_key_idx, yt_sort>>
    /\ UNCHANGED <<traceVars, uiVars>>

\* the searches of keyword_ranked_recos and its return
KeywordSearches ==
    /\ pc = "board"
    /\ \E rows \in {SeedRowsAll(Len(seeds), SeedRequest(reco_req.age_tag, KW_FETCH_TOTAL), yt_sort)} :
       \E script \in SeedRuns(Len(seeds)) :
       \E log \in {BoardLog(seeds, script, rows)} :
           /\ kw_log' = log
           /\ board' = Some(BoardOf(seeds, log))
    /\ yt_key_idx' \in KeyIndexAfter
    /\ pc' = "idle"
    /\ UNCHANGED <<YOUTUBE_API_KEYS, yt_sort, last_call, searchVars,
                   reco_req, collected, chart_calls, tr_ret, tr_again, tr_sizes,
                   tr_err, seeds, fb_log, fb_ret, reco_candidates>>
    /\ UNCHANGED <<traceVars, uiVars>>

\* One interaction of the user: the script run for the event and, when that
\* run ends in st.rerun(), the run that follows it at once.
Interact ==
    /\ pc = "idle"
    /\ \E ev \in Events(session) :
         \* what the API pipelines of one script run come to
         LET RunOutcomes == {[reco |-> r, search |-> q] : r \in {"ok", "raise"},
                                                          q \in {"rows", "empty", "error"}}
         IN
         \E r1 \in {ScriptRun(session, ev, o, secrets, trace_in) : o \in RunOutcomes} :
         \E r2 \in IF r1.rerun
                    THEN {ScriptRun(r1.session, NoEvent, o, secrets, trace_in) :
                             o \in RunOutcomes}
                    ELSE {[r1 EXCEPT !.ran = <<>>]} :
             /\ session' = r2.session
             /\ run' = [event |-> ev, manual |-> r2.session.manual_api_mode,
                        ran |-> r1.ran \o r2.ran, trace |-> r2.trace]
             /\ ranked' = r2.trace.ranked
             /\ yt_key_idx' \in IF r1.ran \o r2.ran = <<>> THEN {yt_key_idx}
                                ELSE KeyIndexAfter
    /\ UNCHANGED <<YOUTUBE_API_KEYS, yt_sort, last_call, pc, searchVars, recoVars,
                   trace_in, secrets>>

(***************************************************************************)
(* Specifications.                                                         *)
(***************************************************************************)
Init == InitWith(MaxPool)

Next == PerformSearch \/ SearchPage \/ DetailBatch \/ SelectSort \/ YtGetCall

Spec == Init /\ [][Next]_vars

\* the recommendation block and the keyword board
NextReco ==
    \/ RecoLoad \/ TrendPage \/ Fallback \/ FallbackSearches
    \/ KeywordBoard \/ KeywordSearches \/ SelectSort

SpecReco == Init /\ [][NextReco]_vars

\* the key-rotation client alone
InitKeys == InitWith(MaxKeys)

NextKeys == YtGetCall

SpecKeys == InitKeys /\ [][NextKeys]_vars

\* searches whose videos.list answers can carry malformed items
NextItems ==
    PerformSearch \/ SearchPage \/ DetailBatchOf(VideoDB \cup MalformedItems)

SpecItems == Init /\ [][NextItems]_vars

\* the ranking of the source trace, for every input of TraceInputs
RankResults ==
    /\ ranked = None
    /\ ranked' = Some(rank_external_results(trace_in.tokens, trace_in.title,
                                            trace_in.results, trace_in.extra_keys))
    /\ UNCHANGED <<YOUTUBE_API_KEYS, yt_key_idx, yt_sort, last_call, pc,
                   searchVars, recoVars, trace_in, uiVars>>

InitRank ==
    /\ InitSession(0)
    /\ trace_in \in TraceInputs
    /\ ranked = None
    /\ secrets = NoSecrets

NextRank == RankResults

SpecRank == InitRank /\ [][NextRank]_vars

\* the page script, for a shorts row with or without tokens, keyphrases and
\* web search answers
InitUI ==
    /\ InitSession(MaxPool)
    /\ secrets \in {[CSE_API_KEY |-> k, CSE_CX |-> c] : k \in {"", "k"}, c \in {"", "cx"}}
    /\ trace_in \in {[NoTraceInput EXCEPT !.tokens = tk, !.extra_keys = ek, !.results = rs] :
                        tk \in {{}, {TOK_ABC}}, ek \in {<<>>, <<KEY_CAT>>},
                        rs \in {<<WebResult(<<"C", "a", "t">>, <<"x", ".", "c", "o", "m">>,
                                            <<>>)>>}}
    /\ ranked = None

NextUI == Interact

SpecUI == InitUI /\ [][NextUI]_vars

(***************************************************************************)
(* Properties of the key-rotation client (checked under SpecKeys).         *)
(***************************************************************************)

\* C1: in one yt_get call over a pool of N >= 1 credentials, the k-th attempt
\* uses the index (start + k - 1) mod N, where start is the session's key index
\* at the call; there are at most N attempts and no index is tried twice.
C1_RotationOrder ==
    LET n == Len(YOUTUBE_API_KEYS)
        tried == last_call.tried
    IN  (n > 0 /\ last_call.ret # "none") =>
            /\ Len(tried) <= n
            /\ \A k \in 1..Len(tried) : tried[k] = (last_call.start + k - 1) % n
            /\ \A j, k \in 1..Len(tried) : j # k => tried[j] # tried[k]

\* a call that started at the last credential, wrapped around and tried all three
C1_Witness ==
    /\ Len(YOUTUBE_API_KEYS) = 3
    /\ last_call.start = 2
    /\ last_call.tried = <<2, 0, 1>>

\* C2: after a yt_get call succeeded with credential index i, the session's key
\* index is i, and the next yt_get call makes its first attempt with index i.
C2_StartsFromLastGood ==
    [][ (last_call.ret = "json") =>
            /\ yt_key_idx = last_call.tried[Len(last_call.tried)]
            /\ yt_key_idx' = last_call'.key_idx
            /\ (last_call'.tried # <<>> =>
                    last_call'.tried[1] = last_call.tried[Len(last_call.tried)]) ]_vars

\* the first two of three credentials are out of quota and the third answers
C2_Witness ==
    /\ Len(YOUTUBE_API_KEYS) = 3
    /\ last_call.start = 0
    /\ last_call.log = <<"quota", "quota", "ok">>
    /\ last_call.ret = "json"
    /\ yt_key_idx = 2

\* C3: when every credential of a non-empty pool fails, the call raises the error
\* of the last attempt; when all of them were rejected as quota-exceeded that is
\* the HTTP error of the last rejected attempt.
C3_RaisesLastError ==
    LET o == last_call.log[Len(last_call.log)]
        \* the error the last attempt ended with (for a quota rejection, the
        \* HTTP 403 error of the response)
        last_error == IF o = "quota" THEN "HTTPError403" ELSE ErrorOf(o)
    IN  (Len(YOUTUBE_API_KEYS) > 0 /\ last_call.ret = "raise") =>
            last_call.err = last_error

\* C6 as stated: only a quota-exceeded or authorisation-style rejection is
\* followed by another attempt, and a transient network failure ends the call
\* and is the error the caller gets.
C6_OnlyQuotaRotates ==
    \A k \in 1..Len(last_call.log) :
        /\ (k < Len(last_call.log) => last_call.log[k] \in {"quota", "forbidden"})
        /\ (last_call.log[k] = "timeout" =>
                /\ k = Len(last_call.log)
                /\ last_call.ret = "raise"
                /\ last_call.err = "ConnectTimeout")

\* C6 amended: every failed attempt (quota-exceeded, another HTTP error status,
\* a transport failure such as a timeout, an unreadable body) is followed by an
\* attempt with the next credential as long as one is left; the call raises only
\* after all N credentials failed, so a transient network failure reaches the
\* caller only when no credential answered.
C6_AnyFailureRotates ==
    LET n == Len(YOUTUBE_API_KEYS)
        log == last_call.log
    IN  (n > 0 /\ last_call.ret # "none") =>
            /\ \A k \in 1..Len(log) : (log[k] # "ok" /\ k < n) => Len(log) > k
            /\ (last_call.ret = "raise" =>
                    /\ Len(log) = n
                    /\ \A k \in 1..n : log[k] # "ok")
            /\ (last_call.ret = "json" => log[Len(log)] = "ok")

\* the first credential times out and the call goes on to the second, which answers
C6_Witness ==
    /\ Len(YOUTUBE_API_KEYS) >= 2
    /\ last_call.log = <<"timeout", "ok">>
    /\ last_call.ret = "json"

(***************************************************************************)
(* Properties of the search (checked under Spec).                          *)
(***************************************************************************)

\* C4: with an empty credential pool, yt_get raises the configuration error
\* without any attempt, a search fails with that error before any request to the
\* API, and the session's key index stays as it was.
C4_NoKeysFailsFast ==
    Len(YOUTUBE_API_KEYS) = 0 =>
        /\ yt_key_idx = 0
        /\ (last_call.ret # "none" =>
                /\ last_call.ret = "raise"
                /\ last_call.err = "RuntimeErrorNoKey"
                /\ last_call.tried = <<>>
                /\ last_call.key_idx = last_call.start)
        /\ (report # "none" =>
                /\ pc = "idle"
                /\ report = "search_error"
                /\ err = "RuntimeErrorNoKey"
                /\ failed_call = NoCall
                /\ search_calls = 0
                /\ video_calls = 0
                /\ result = <<>>)

\* a search was started with no credential configured
C4_Witness ==
    /\ Len(YOUTUBE_API_KEYS) = 0
    /\ report = "search_error"
    /\ err = "RuntimeErrorNoKey"
    /\ search_calls = 0

\* C5: when a search fails in a yt_get call in which every credential was
\* rejected as quota-exceeded, perform_search shows the quota-exhausted message.
C5_QuotaMessage ==
    ( /\ pc = "idle"
      /\ failed_call.ret = "raise"
      /\ failed_call.log # <<>>
      /\ \A k \in 1..Len(failed_call.log) : failed_call.log[k] = "quota" )
        => report = "quota_exhausted"

\* C7: no two records of a search result have the same url.
C7_UniqueUrls ==
    \A i, j \in 1..Len(result) : i # j => result[i].url # result[j].url

\* the details endpoint returned the same video twice and the search returned it once
C7_Witness ==
    /\ report = "ok"
    /\ Len(detail_items) = 2
    /\ detail_items[1] = detail_items[2]
    /\ Len(out) = 2
    /\ Len(result) = 1

\* C8: every record of a search result satisfies all the filters of the request:
\* its title contains every include-word and no exclude-word (case-insensitive),
\* its channel title is in a non-empty include-channels list and not in the
\* exclude-channels list, likewise its channel id, and its duration is within
\* the bounds that are set.
C8_FiltersHold ==
    \A i \in 1..Len(result) :
        LET x == result[i]
            title_l == lower(x.title)
        IN  /\ \A w \in Range(req.include_words) : Contains(lower(w), title_l)
            /\ \A w \in Range(req.exclude_words) : ~Contains(lower(w), title_l)
            /\ (req.include_channels # <<>> => x.author \in Range(req.include_channels))
            /\ x.author \notin Range(req.exclude_channels)
            /\ (req.include_channel_ids # <<>> =>
                    x.src.channelId \in Range(req.include_channel_ids))
            /\ x.src.channelId \notin Range(req.exclude_channel_ids)
            /\ (req.min_seconds # None => x.durationSec >= req.min_seconds[1])
            /\ (req.max_seconds # None => x.durationSec <= req.max_seconds[1])

\* a search with two include-words kept one of two different videos
C8_Witness ==
    /\ report = "ok"
    /\ Len(req.include_words) = 2
    /\ Len(detail_items) = 2
    /\ detail_items[1].id # detail_items[2].id
    /\ Len(out) = 1
    /\ Len(result) = 1

\* C9: with an age tag set, the result has at most as many records as the same
\* search without the tag, and every record has an age-relevance score of at
\* least 1 and no hit in the negative keywords of the tag.
C9_AgeGate ==
    (report = "ok" /\ req.age_tag # NoAgeTag) =>
        /\ Len(result) <= Len(PostProcess(out, yt_sort, NoAgeTag))
        /\ \A i \in 1..Len(result) :
              /\ result[i].age_score # None
              /\ result[i].age_score[1] >= 1
              /\ age_relevance_score(result[i].title, req.age_tag) >= 1
              /\ ~age_negative_hit(result[i].title, req.age_tag)

\* a search with an age tag kept one of the two records that passed the filters
C9_Witness ==
    /\ report = "ok"
    /\ req.age_tag # NoAgeTag
    /\ Len(out) = 2
    /\ out[1].url # out[2].url
    /\ Len(result) = 1

C12_DefaultSortOrder ==
    (report = "ok" /\ req.age_tag = NoAgeTag) =>
        \A i, j \in 1..Len(result) :
            i < j =>
                IF yt_sort = "johoesusun"
                THEN /\ (result[i].views = None => result[j].views = None)
                     /\ (result[i].views # None /\ result[j].views # None
                            => result[i].views[1] >= result[j].views[1])
                ELSE /\ (result[i].publishedAt = None => result[j].publishedAt = None)
                     /\ (result[i].publishedAt # None /\ result[j].publishedAt # None
                            => ~StrGt(result[j].publishedAt[1], result[i].publishedAt[1]))

\* C13: in every record of the search and of the trending pipeline isShorts is
\* true exactly when the parsed duration is greater than 0 and at most 60
\* seconds; a record whose duration is missing or does not parse has duration
\* 0 and isShorts false.
C13_ShortsFlag ==
    LET RecordsOf(o) == IF o = None THEN {} ELSE Range(o[1])
        \* the records of the trending loop and its return, of the fallback
        \* (records of search_youtube) and of the board's searches
        RecoRecords ==
            Range(collected) \cup RecordsOf(tr_ret) \cup RecordsOf(fb_ret)
                \cup RecordsOf(reco_candidates)
                \cup UNION {Range(kw_log[i].rows) : i \in 1..Len(kw_log)}
    IN
    \A x \in RecoRecords :
        /\ x.durationSec >= 0
        /\ x.isShorts = (x.durationSec > 0 /\ x.durationSec <= 60)
        /\ (x.src.duration \in {None, Some(D_P1D)} =>
                x.durationSec = 0 /\ ~x.isShorts)
        /\ (x.src.duration = Some(D_PT1M) => x.durationSec = 60 /\ x.isShorts)
        /\ (x.src.duration = Some(D_PT45S) => x.durationSec = 45 /\ x.isShorts)
        /\ (x.src.duration = Some(D_PT1H2M3S) => x.durationSec = 3723 /\ ~x.isShorts)

\* a fallback return (records of search_youtube) with a record of exactly 60
\* seconds, one without duration and one whose duration does not parse
C13_Witness ==
    /\ fb_ret # None
    /\ \E x, y, z \in Range(fb_ret[1]) :
          /\ x.durationSec = 60 /\ x.isShorts
          /\ y.src.duration = None /\ ~y.isShorts
          /\ z.src.duration = Some(D_P1D) /\ ~z.isShorts

\* C14: fetch_trending_with_engagement never propagates a failure of the chart
\* call: no exception of yt_get leaves it, whatever made the page fetch fail.
C14_NeverPropagates == tr_err = NoError

\* C15 as stated: whenever the candidate list is non-empty after the sort and
\* the age block, the head subset has max(40, 60% of the candidates) items and
\* between 60 and 120 items are returned.
C15_HeadAndReturnSizes ==
    (tr_ret # None /\ tr_sizes.candidates > 0) =>
        /\ tr_sizes.head = Max(POOL_MIN, (tr_sizes.candidates * POOL_PERCENT) \div 100)
        /\ Len(tr_ret[1]) >= RETURN_MIN
        /\ Len(tr_ret[1]) <= RETURN_MAX

\* C15 amended: with n > 0 candidates the head subset is the first
\* min(n, max(40, floor(0.6 n))) of them and min(head, 120) items are returned:
\* never more than 120, at least 60 once there are 100 candidates, and fewer
\* than 60 when the head subset is smaller than that.
C15_SizesAmended ==
    (tr_ret # None /\ tr_sizes.candidates > 0) =>
        LET n == tr_sizes.candidates
        IN  /\ tr_sizes.head = Min(n, Max(POOL_MIN, (n * POOL_PERCENT) \div 100))
            /\ Len(tr_ret[1]) = Min(tr_sizes.head, RETURN_MAX)
            /\ Len(tr_ret[1]) <= RETURN_MAX
            /\ (n >= 100 => Len(tr_ret[1]) >= RETURN_MIN)
            /\ (tr_sizes.head < RETURN_MIN => Len(tr_ret[1]) < RETURN_MIN)

\* more than 200 candidates: the head subset is larger than 120 and is cut to 120
C15_Witness ==
    /\ tr_ret # None
    /\ tr_sizes.candidates > TREND_FETCH_TOTAL
    /\ tr_sizes.head > RETURN_MAX
    /\ tr_sizes.head < tr_sizes.candidates
    /\ Len(tr_ret[1]) = RETURN_MAX

\* C16 as stated: for every seed value, a second invocation with the same
\* seed and the same chart answers returns the same records in the same order.
C16_ReproduciblePerSeed ==
    tr_ret # None => tr_again = tr_ret

\* C16 amended: for every seed value other than 0, a second invocation with
\* the same seed and the same chart answers returns the same records in the
\* same order, whenever it is made.
C16_ReproducibleNonZeroSeed ==
    (tr_ret # None /\ reco_req.salt # 0) => tr_again = tr_ret

\* a seeded load by views without age tag whose return is not in the order of
\* the sort (the shuffle moved records) and is the same at the second
\* invocation
C16_Witness ==
    /\ tr_ret # None
    /\ reco_req.salt # 0
    /\ reco_req.age_tag = NoAgeTag
    /\ reco_req.order_mode = "viewCount"
    /\ Len(tr_ret[1]) >= MIN_RECO
    /\ \E i, j \in 1..Len(tr_ret[1]) :
          i < j /\ ViewsOr(tr_ret[1][i], -1) < ViewsOr(tr_ret[1][j], -1)
    /\ tr_again = tr_ret

\* C17: when the trending pipeline returns fewer than 12 candidates the
\* fallback is invoked and its output replaces the trending result; that
\* output has at most 200 records, at most one record per url, and is sorted
\* by views descending (a record of unknown views counting as 0). When the
\* trending pipeline returns 12 or more candidates the fallback is not invoked.
C17_FallbackBelowTwelve ==
    /\ tr_ret # None =>
          /\ (Len(tr_ret[1]) < 12 <=> pc = "fallback")
          /\ (Len(tr_ret[1]) >= 12 =>
                 pc = "idle" /\ reco_candidates = tr_ret /\ fb_ret = None)
    /\ pc \in {"fallback", "seeds"} => reco_candidates = None /\ fb_ret = None
    /\ fb_ret # None =>
          /\ reco_candidates = fb_ret
          /\ Len(fb_ret[1]) <= 200
          /\ \A i, j \in 1..Len(fb_ret[1]) :
                i < j => /\ fb_ret[1][i].url # fb_ret[1][j].url
                         /\ ViewsOr(fb_ret[1][i], 0) >= ViewsOr(fb_ret[1][j], 0)

\* a fallback whose seed searches gave more than 200 distinct videos: 200 are
\* kept, of different view counts
C17_Witness ==
    /\ fb_ret # None
    /\ reco_candidates = fb_ret
    /\ Len(fb_ret[1]) = 200
    /\ ViewsOr(fb_ret[1][1], 0) > ViewsOr(fb_ret[1][200], 0)

\* C18: keyword_ranked_recos returns a mapping with an entry for every seed
\* keyword; every keyword is searched, whatever the searches before it came
\* to; a keyword whose search raised maps to the empty list and a keyword
\* whose search succeeded maps to the first per_keyword records of that search.
C18_PerKeywordIsolation ==
    board # None =>
        /\ DOMAIN board[1] = Range(seeds)
        /\ Len(kw_log) = Len(seeds)
        /\ \A i \in 1..Len(seeds) :
              IF kw_log[i].raised
              THEN board[1][seeds[i]] = <<>>
              ELSE board[1][seeds[i]] = Prefix(kw_log[i].rows, PER_KEYWORD)

\* C19: for every demographic tag build_age_seed_queries returns a non-empty
\* list of at most 8 keywords drawn from the tag's allowlist, none of them one
\* of the generic terms skipped; for a tag without allowlist it returns
\* exactly the two generic fallback terms.
C19_SeedKeywords ==
    seeds # <<>> =>
        /\ Len(seeds) >= 1
        /\ Len(seeds) <= 8
        /\ IF reco_req.age_tag \in AgeTags
           THEN \A i \in 1..Len(seeds) :
                    /\ seeds[i] \in Range(AGE_KEYWORDS(reco_req.age_tag))
                    /\ seeds[i] \notin BAN
           ELSE seeds = GENERIC_SEEDS

\* C20: no candidate whose title and snippet contain none of the tokens and
\* none of the keyphrases is in the output of rank_external_results, whatever
\* its domain weight and title similarity and whatever the web search returned.
C20_RelevanceFloor ==
    LET \* r has a hit: its title and snippet contain, letter case aside, one
        \* of the tokens or one of the keyphrases
        HasHit(r, tokens, extra_keys) ==
            \E w \in tokens \cup Range(extra_keys) :
                Contains(lower(w), lower(r.title \o <<" ">> \o r.snippet))
    IN
    ranked # None =>
        /\ \A i \in 1..Len(ranked[1]) :
              /\ HasHit(ranked[1][i], trace_in.tokens, trace_in.extra_keys)
              /\ \E k \in 1..Len(trace_in.results) :
                    /\ trace_in.results[k].title = ranked[1][i].title
                    /\ trace_in.results[k].link = ranked[1][i].link
                    /\ trace_in.results[k].snippet = ranked[1][i].snippet
        /\ \A k \in 1..Len(trace_in.results) :
              ~HasHit(trace_in.results[k], trace_in.tokens, trace_in.extra_keys) =>
                  \A i \in 1..Len(ranked[1]) :
                      ranked[1][i].title # trace_in.results[k].title

\* the web search returned, first, a result on tiktok.com titled like the
\* video and without any hit, then two results with a hit: only these two are
\* in the output, the one with the token first
C20_Witness ==
    LET \* r has a hit: its title and snippet contain, letter case aside, one
        \* of the tokens or one of the keyphrases
        HasHit(r, tokens, extra_keys) ==
            \E w \in tokens \cup Range(extra_keys) :
                Contains(lower(w), lower(r.title \o <<" ">> \o r.snippet))
    IN
    /\ ranked # None
    /\ trace_in.tokens = {TOK_ABC}
    /\ trace_in.extra_keys = <<KEY_CAT>>
    /\ trace_in.title = TITLE_DOG
    /\ Len(trace_in.results) = 3
    /\ ~HasHit(trace_in.results[1], trace_in.tokens, trace_in.extra_keys)
    /\ domain_weight(trace_in.results[1].link) = 30
    /\ TitleSim(lower(trace_in.title), Body(trace_in.results[1])) = 10
    /\ Len(ranked[1]) = 2
    /\ ranked[1][1].ext_score = 36
    /\ ranked[1][2].ext_score = 24

(***************************************************************************)
(* C21                                                                     *)
(***************************************************************************)
\* C21: in the output of rank_external_results no second-level domain (the
\* last two labels of the host, so that all subdomains of x.com count as
\* x.com) appears more than DOMAIN_LIMIT times, and the output has at most
\* RANK_CAP candidates.
C21_DomainCap ==
    ranked # None =>
        LET res == ranked[1]
            Host(link) == DomainOf(link)
            Dots(h) == {i \in 1..Len(h) : h[i] = "."}
            SecondLevel(h) ==
                IF Cardinality(Dots(h)) < 2 THEN h
                ELSE LET last == CHOOSE i \in Dots(h) : \A j \in Dots(h) : j <= i
                         prev == CHOOSE i \in Dots(h) \ {last} :
                                     \A j \in Dots(h) \ {last} : j <= i
                     IN  SubSeq(h, prev + 1, Len(h))
        IN  /\ Len(res) <= RANK_CAP
            /\ \A i \in 1..Len(res) :
                  Cardinality({j \in 1..Len(res) :
                      SecondLevel(Host(res[j].link)) = SecondLevel(Host(res[i].link))})
                      <= DOMAIN_LIMIT

(***************************************************************************)
(* C22                                                                     *)
(***************************************************************************)
\* C22 as stated: whenever the source-trace view is rendered in a run and no
\* web-search credentials are configured, or the token set and the keyphrase
\* string are both empty, an error or a warning is reported and no web search
\* request is issued in that run.
C22_FailFast ==
    ( /\ run.trace.report # "none"
      /\ \/ secrets.CSE_API_KEY = "" \/ secrets.CSE_CX = ""
         \/ trace_in.tokens = {} /\ trace_in.extra_keys = <<>> )
    => /\ run.trace.report \in {"error_no_credentials", "warning_nothing_extracted"}
       /\ run.trace.web_searches = 0

\* C22 amended: the same for the runs in which the search is started, that is
\* with manual mode off or with the start button of the view pressed; in every
\* other run of the view no web search request is issued either.
C22_FailFastWhenStarted ==
    LET unfit == \/ secrets.CSE_API_KEY = "" \/ secrets.CSE_CX = ""
                 \/ trace_in.tokens = {} /\ trace_in.extra_keys = <<>>
        started == ~run.manual \/ run.event.widget = "btn_trace_go"
    IN  /\ (run.trace.report # "none" /\ unfit /\ started)
              => /\ run.trace.report \in {"error_no_credentials",
                                          "warning_nothing_extracted"}
                 /\ run.trace.web_searches = 0
        /\ (run.trace.report # "none" /\ ~started)
              => /\ run.trace.report = "info_press_start"
                 /\ run.trace.web_searches = 0

\* the start button pressed in manual mode for a row with a token, one of the
\* two credentials missing: the error is reported and nothing is searched
C22_Witness ==
    /\ run.manual
    /\ run.event.widget = "btn_trace_go"
    /\ trace_in.tokens # {}
    /\ secrets.CSE_API_KEY # ""
    /\ secrets.CSE_CX = ""
    /\ run.trace.report = "error_no_credentials"
    /\ run.trace.web_searches = 0

(***************************************************************************)
(* C23                                                                     *)
(***************************************************************************)
\* C23: a detail item with a malformed or missing field (no id, no
\* statistics, a view count that is no number, a duration that cannot be
\* parsed) never aborts search_youtube: no search ends with the exception
\* of reading an item.
C23_ItemsTolerated == err \notin {"KeyError", "ValueError"}

(***************************************************************************)
(* C24                                                                     *)
(***************************************************************************)
\* C24: what search_youtube returns is determined by its arguments and the
\* API responses alone, whatever the session state: each search of the
\* keyword board, invoked with the same arguments and answered with the same
\* responses under any sort selection of the session, returns the list it
\* returned under the present one.
C24_SessionIndependent ==
    board # None =>
        LET r == SeedRequest(reco_req.age_tag, KW_FETCH_TOTAL)
        IN  \A i \in 1..Len(kw_log) : \A a \in SeedAnswers \ {"raise"} :
                ( /\ ~kw_log[i].raised
                  /\ kw_log[i].rows = SeedRows(a, i, r, yt_sort) )
                => \A s \in SortModes : SeedRows(a, i, r, s) = kw_log[i].rows

(***************************************************************************)
(* C25                                                                     *)
(***************************************************************************)
\* C25: while manual mode is on, the script runs of an interaction run an API
\* pipeline (search, recommendation load, keyword board) only when the
\* interaction is the submission of the search form or a press of one of the
\* two load buttons; a click on an age chip or on a recent-search entry runs no
\* pipeline, leaves the key index and the trigger flags as they were, and
\* changes filter and query state only: the chip sets the age filter, empties
\* the result list and clears the query parameters of the page, the
\* recent-search entry sets the text of the search box.
C25_ManualGate ==
    [][ session'.manual_api_mode =>
          /\ run'.ran # <<>> =>
                run'.event.widget \in {"submit", "btn_load_reco", "btn_load_kwboard"}
          /\ run'.event.widget = "chip" =>
                /\ run'.ran = <<>>
                /\ yt_key_idx' = yt_key_idx
                /\ session' = [session EXCEPT !.age_filter = run'.event.arg,
                                              !.results_df = "empty", !.view = ""]
          /\ run'.event.widget = "hist" =>
                /\ run'.ran = <<>>
                /\ yt_key_idx' = yt_key_idx
                /\ session' = [session EXCEPT !.sb_query = run'.event.arg]
      ]_vars

\* in manual mode, with results on the page and a search in the history, an
\* age chip was clicked: nothing ran, the filter is set and the list is empty
C25_Witness ==
    /\ run.manual
    /\ run.event.widget = "chip"
    /\ run.ran = <<>>
    /\ session.age_filter = run.event.arg
    /\ session.search_history # <<>>
    /\ ~session.want_reco_now

\* C26: a yt_get call in which every credential fails leaves the session's
\* key index as it was when the call started, and after any sequence of
\* yt_get calls the index is a position of the key pool
C26_FailureKeepsIndex ==
    /\ last_call.ret = "raise" => yt_key_idx = last_call.start
    /\ YOUTUBE_API_KEYS # <<>> => yt_key_idx \in 0..(Len(YOUTUBE_API_KEYS) - 1)

\* C27: the paging loop of search_youtube terminates: an iteration that does
\* not leave the loop makes the collected list longer by at least one id, the
\* list is shorter than the clamped target T as long as the loop runs, and so
\* a search makes at most T search calls, also when every page carries a
\* next-page token and fewer than 50 ids, or ids collected before.
C27_PagingTerminates ==
    [][ LET T == ClampTotal(req'.fetch_total)
        IN  /\ (pc = "paging" /\ pc' = "paging") =>
                  /\ search_calls' = search_calls + 1
                  /\ Len(collected_ids') >= Len(collected_ids) + 1
            /\ pc' = "paging" =>
                  /\ Len(collected_ids') < T
                  /\ search_calls' <= Len(collected_ids')
            /\ search_calls' <= T ]_vars

\* two ids asked for and two search calls made, the first page short (one id,
\* with a next-page token) and the second adding no new id (none, or the id of
\* the first page): the loop has ended with one id left
C27_Witness ==
    /\ ClampTotal(req.fetch_total) = 2
    /\ search_calls = 2
    /\ pc = "details"
    /\ Len(collected_ids) = 1

\* C28: for the demographic tag of the search, the negative keywords of the
\* tag hold none of the tag's own keywords and no text contained in one of
\* them; so a title that is exactly one of the tag's keywords has no negative
\* hit, scores at least 1 and is kept by the demographic filter.
C28_OwnKeywordsPass ==
    req.age_tag \in AgeTags =>
        \A i \in 1..Len(AGE_KEYWORDS(req.age_tag)) :
            LET kw == AGE_KEYWORDS(req.age_tag)[i]
            IN  /\ lower(kw) \notin AGE_NEG_KEYWORDS[req.age_tag]
                /\ \A neg \in AGE_NEG_KEYWORDS[req.age_tag] : ~Contains(neg, lower(kw))
                /\ ~age_negative_hit(kw, req.age_tag)
                /\ age_relevance_score(kw, req.age_tag) >= 1

====
